---- MODULE Spec2Model ----
(***************************************************************************)
(* Extraction and normalisation pipeline of the BuyHatke scraper           *)
(* (scraper/ollama_scraper.py, class OllamaBuyHatkeScraper).               *)
(*                                                                         *)
(* The pipeline is synchronous and keeps no state between calls, so every  *)
(* handler is modelled as one action that draws the handler's inputs (the  *)
(* fetched page, the replies of the external collaborators) from bounded   *)
(* sets, runs the handler as the source runs it and records its inputs,    *)
(* the collaborators it invoked and the value it returned.                 *)
(*                                                                         *)
(* Text is modelled in two ways.  Price texts are sequences of one-        *)
(* character strings, so that formatting and parsing are computed.  Names, *)
(* queries, links and markup are only ever tested by the code for the      *)
(* keywords they contain, so they are modelled by the set of keywords of   *)
(* the code's vocabularies that occur in them (their "hits").              *)
(***************************************************************************)
EXTENDS Integers, Sequences, FiniteSets, TLC

VARIABLES
    groq_client,   \* self.groq_client is set (a credential was given)
    op,            \* the handler that ran last
    args,          \* its inputs: arguments and collaborator replies
    invoked,       \* the collaborators it invoked, in order
    ret            \* the value it returned

vars == <<groq_client, op, args, invoked, ret>>

(***************************************************************************)
(* Generic helpers                                                         *)
(***************************************************************************)
Min2(a, b) == IF a <= b THEN a ELSE b

Range(s) == {s[i] : i \in 1..Len(s)}

SeqsUpTo(S, n) == UNION {[1..k -> S] : k \in 0..n}

RECURSIVE Repeat(_, _)
Repeat(x, n) == IF n = 0 THEN <<>> ELSE <<x>> \o Repeat(x, n - 1)

SelectIdx(s, Test(_)) == {i \in 1..Len(s) : Test(s[i])}

(***************************************************************************)
(* Price texts                                                             *)
(***************************************************************************)
DigitChars == <<"0", "1", "2", "3", "4", "5", "6", "7", "8", "9">>

IsDigitChar(c) == \E d \in 1..10 : DigitChars[d] = c

DigitVal(c) == (CHOOSE d \in 1..10 : DigitChars[d] = c) - 1

\* str.isdigit()
IsDigit(s) == Len(s) > 0 /\ \A i \in 1..Len(s) : IsDigitChar(s[i])

RECURSIVE IntOf(_)
IntOf(s) == IF s = <<>> THEN 0
            ELSE IntOf(SubSeq(s, 1, Len(s) - 1)) * 10 + DigitVal(s[Len(s)])

RECURSIVE Digits(_)
Digits(n) == IF n < 10 THEN <<DigitChars[n + 1]>>
             ELSE Digits(n \div 10) \o <<DigitChars[(n % 10) + 1]>>

RECURSIVE GroupThousands(_)
GroupThousands(ds) ==
    IF Len(ds) <= 3 THEN ds
    ELSE GroupThousands(SubSeq(ds, 1, Len(ds) - 3))
             \o <<",">> \o SubSeq(ds, Len(ds) - 2, Len(ds))

Rupee == "₹"

\* f"₹{price:,}" and f"₹{price:,.0f}" of a whole, non-negative amount
FormatRupees(n) == <<Rupee>> \o GroupThousands(Digits(n))

PriceNotAvailable ==
    <<"P", "r", "i", "c", "e", " ", "n", "o", "t", " ",
      "a", "v", "a", "i", "l", "a", "b", "l", "e">>

StartsWith(s, pat) == Len(s) >= Len(pat) /\ SubSeq(s, 1, Len(pat)) = pat

\* str.replace(pat, ''): left to right, without overlap
RECURSIVE RemoveAll(_, _)
RemoveAll(s, pat) ==
    IF s = <<>> THEN <<>>
    ELSE IF StartsWith(s, pat) THEN RemoveAll(SubSeq(s, Len(pat) + 1, Len(s)), pat)
    ELSE <<Head(s)>> \o RemoveAll(Tail(s), pat)

RECURSIVE LStrip(_)
LStrip(s) == IF s # <<>> /\ Head(s) = " " THEN LStrip(Tail(s)) ELSE s

RECURSIVE RStrip(_)
RStrip(s) == IF s # <<>> /\ s[Len(s)] = " " THEN RStrip(SubSeq(s, 1, Len(s) - 1)) ELSE s

Strip(s) == RStrip(LStrip(s))

\* float(text) for the texts of this model: a run of digits, with an optional
\* leading minus sign, is a number; every other text raises ValueError.
FloatOf(s) ==
    IF IsDigit(s) THEN [ok |-> TRUE, val |-> IntOf(s)]
    ELSE IF Len(s) > 1 /\ Head(s) = "-" /\ IsDigit(Tail(s))
         THEN [ok |-> TRUE, val |-> 0 - IntOf(Tail(s))]
    ELSE [ok |-> FALSE, val |-> 0]

\* The rupee sign as it reads after a wrong decoding
Mojibake == <<"â", "¹">>

ParsePriceNumericKeepsCommas(price_str) ==
    IF price_str = <<>> THEN 0
    ELSE LET price_clean ==
                 Strip(RemoveAll(RemoveAll(RemoveAll(RemoveAll(price_str,
                     <<Rupee>>), Mojibake), <<"R", "s", ".">>), <<"R", "s">>))
             v == FloatOf(price_clean)
         IN  IF v.ok THEN v.val ELSE 0

ParsePriceNumeric(price_str) ==
    IF price_str = <<>> THEN 0
    ELSE LET price_clean ==
                 Strip(RemoveAll(RemoveAll(RemoveAll(RemoveAll(RemoveAll(price_str,
                     <<Rupee>>), Mojibake), <<",">>), <<"R", "s", ".">>), <<"R", "s">>))
             v == FloatOf(price_clean)
         IN  IF v.ok THEN v.val ELSE 0

\* dict.get(key, default)
Get(d, key, default) == IF key \in DOMAIN d THEN d[key] ELSE default

(***************************************************************************)
(* Names and queries.  A name is its text, the keywords of the code's      *)
(* vocabularies that occur in its lower-cased text, and its length.        *)
(***************************************************************************)
MkName(text, hits, len) == [text |-> text, hits |-> hits, len |-> len]

accessory_keywords ==
    {"stand", "holder", "cable", "adapter", "charger", "case", "cover",
     "screen protector", "tempered glass", "skin", "sticker", "mount",
     "bracket", "dock", "hub", "converter", "connector", "sleeve",
     "bag", "pouch", "strap", "belt", "clip", "ring", "grip",
     "cleaner", "wipe", "cloth", "kit", "tool", "screwdriver",
     "mat", "pad", "rest", "cushion", "pillow", "tray",
     "light", "lamp", "fan", "cooler", "cooling pad",
     "mouse pad", "keyboard cover", "webcam cover", "privacy screen"}

\* main_product_queries, in the order the dict is iterated
main_product_queries ==
    << [category |-> "laptop",
        keywords |-> {"laptop", "notebook", "macbook", "thinkpad", "ideapad",
                      "aspire", "pavilion", "inspiron"}],
       [category |-> "phone",
        keywords |-> {"phone", "iphone", "galaxy", "pixel", "oneplus", "realme",
                      "oppo", "vivo", "mi", "redmi"}],
       [category |-> "tablet",
        keywords |-> {"tablet", "ipad", "galaxy tab", "surface"}],
       [category |-> "headphone",
        keywords |-> {"headphone", "earphone", "earbud", "airpods", "headset"}],
       [category |-> "watch",
        keywords |-> {"watch", "smartwatch", "apple watch", "galaxy watch"}],
       [category |-> "camera",
        keywords |-> {"camera", "dslr", "mirrorless", "gopro", "canon", "nikon",
                      "sony camera"}],
       [category |-> "tv",
        keywords |-> {"tv", "television", "smart tv", "led tv", "oled", "qled"}],
       [category |-> "speaker",
        keywords |-> {"speaker", "bluetooth speaker", "smart speaker", "soundbar"}] >>

laptop_terms ==
    {"laptop", "notebook", "macbook", "book", "ideapad", "thinkpad", "pavilion",
     "inspiron", "aspire", "vivobook", "zenbook", "gaming laptop"}

laptop_accessories ==
    {"stand", "bag", "sleeve", "cooling pad", "mat", "charger", "cable", "hdmi", "usb"}

phone_terms ==
    {"phone", "iphone", "galaxy", "pixel", "oneplus", "realme", "oppo", "vivo",
     "mi", "redmi", "nothing phone", "smartphone"}

phone_accessories == {"case", "cover", "screen protector", "charger", "adapter"}

tv_terms ==
    {"tv", "television", "smart tv", "qled", "led tv", "oled", "inch)", "cm (", "display"}

headphone_terms ==
    {"headphone", "earphone", "earbud", "airpods", "headset", "wireless",
     "bluetooth", "noise cancelling"}

headphone_accessories == {"stand", "case", "adapter", "cable", "jack"}

\* any(keyword in text for keyword in keywords)
AnyIn(keywords, hits) == keywords \cap hits # {}

\* the first category one of whose keywords occurs in the query; 0 when none does
MatchingCategory(query_hits) ==
    LET found == {k \in 1..Len(main_product_queries) :
                      AnyIn(main_product_queries[k].keywords, query_hits)}
    IN  IF found = {} THEN 0 ELSE CHOOSE k \in found : \A j \in found : k <= j

IsRelevantProduct(product_name, query) ==
    LET product_lower == product_name.hits
        accessory_score == Cardinality(accessory_keywords \cap product_lower)
        k == MatchingCategory(query.hits)
        matching_category == main_product_queries[k].category
        has_main_keyword == AnyIn(main_product_queries[k].keywords, product_lower)
    IN  IF k = 0 THEN accessory_score < 2
        ELSE IF matching_category = "laptop" THEN
            IF accessory_score >= 2 \/ AnyIn(laptop_accessories, product_lower)
            THEN FALSE
            ELSE AnyIn(laptop_terms, product_lower)
        ELSE IF matching_category = "phone" THEN
            IF accessory_score >= 1 \/ AnyIn(phone_accessories, product_lower)
            THEN FALSE
            ELSE IF AnyIn(tv_terms, product_lower) THEN FALSE
            ELSE AnyIn(phone_terms, product_lower)
        ELSE IF matching_category = "headphone" THEN
            IF AnyIn(headphone_accessories, product_lower) THEN FALSE
            ELSE AnyIn(headphone_terms, product_lower)
        ELSE has_main_keyword /\ accessory_score < 2

(***************************************************************************)
(* Structured-data extractor: _extract_json_data                           *)
(*                                                                         *)
(* A complete record (an entry of product_matches) is                      *)
(*   [prod_name, price_str, site_info]                                     *)
(* where site_info is the set of platform keywords that occur in the       *)
(* lower-cased siteImage + " " + link.  popularity, is_active and the      *)
(* internal id are the literals the code puts into every tuple.            *)
(***************************************************************************)
max_per_platform == 25

MaxProducts == 60

LowPopularity == 10

\* the if/elif chain over site_info, in its order
platform_chain ==
    << [keywords |-> {"amazon"},                label |-> "Amazon"],
       [keywords |-> {"flipkart"},              label |-> "Flipkart"],
       [keywords |-> {"myntra"},                label |-> "Myntra"],
       [keywords |-> {"tatacliq", "tata_cliq"}, label |-> "Tatacliq"],
       [keywords |-> {"ajio"},                  label |-> "Ajio"],
       [keywords |-> {"nykaa"},                 label |-> "Nykaa"],
       [keywords |-> {"paytm"},                 label |-> "Paytm"],
       [keywords |-> {"snapdeal"},              label |-> "Snapdeal"],
       [keywords |-> {"shopclues"},             label |-> "ShopClues"],
       [keywords |-> {"croma"},                 label |-> "Croma"],
       [keywords |-> {"reliance"},              label |-> "Reliance Digital"],
       [keywords |-> {"vijaysales"},            label |-> "Vijay Sales"] >>

ClassifyPlatform(site_info) ==
    LET found == {k \in 1..Len(platform_chain) : AnyIn(platform_chain[k].keywords, site_info)}
    IN  IF found = {} THEN "BuyHatke"
        ELSE platform_chain[CHOOSE k \in found : \A j \in found : k <= j].label

\* the counter a branch of the chain tests and increments
QuotaCounter(platform) ==
    IF platform = "Amazon" THEN "amazon_count"
    ELSE IF platform = "Flipkart" THEN "flipkart_count"
    ELSE "others_count"

QuotaReachedOffByOne(count) == count > max_per_platform

\* if <counter> >= max_per_platform: continue
QuotaReached(count) == count >= max_per_platform

AvailabilityStatus(is_active, price, popularity) ==
    IF is_active = 0 THEN "Out of Stock"
    ELSE IF price = 0 THEN "Price Not Available"
    ELSE IF popularity < LowPopularity THEN "Limited Stock"
    ELSE "Available"

\* the dict built for the i-th tuple (i counts from 0, as enumerate does)
JsonProduct(i, m, platform) ==
    LET price == IF IsDigit(m.price_str) THEN IntOf(m.price_str) ELSE 0
        popularity == 0
        is_active == 1
    IN  [id |-> <<"json_product", i + 1>>,
         name |-> m.prod_name,
         price |-> IF price # 0 THEN FormatRupees(price) ELSE PriceNotAvailable,
         platform |-> platform,
         extraction_method |-> "json_data",
         popularity |-> popularity,
         is_active |-> is_active,
         availability_status |-> AvailabilityStatus(is_active, price, popularity)]

CapReachedOffByOne(products) == Len(products) > MaxProducts

\* if len(products) >= 60: break
CapReached(products) == Len(products) >= MaxProducts

JsonInitState ==
    [amazon_count |-> 0, flipkart_count |-> 0, others_count |-> 0,
     products |-> <<>>, stopped |-> FALSE, seen |-> 0]

\* one iteration of the loop over product_matches
JsonStep(st, i, m, query) ==
    LET platform == ClassifyPlatform(m.site_info)
        c == QuotaCounter(platform)
    IN  IF QuotaReached(st[c]) THEN [st EXCEPT !.seen = i + 1]
        ELSE LET counted == [st EXCEPT ![c] = @ + 1, !.seen = i + 1]
                 product == JsonProduct(i, m, platform)
             IN  IF IsRelevantProduct(product.name, query) /\ product.name.len > 0
                        /\ product.name.len > 5
                 THEN LET products == Append(st.products, product)
                      IN  [counted EXCEPT !.products = products,
                                          !.stopped = CapReached(products)]
                 ELSE counted

RECURSIVE JsonLoop(_, _, _, _)
JsonLoop(st, i, product_matches, query) ==
    IF i >= Len(product_matches) \/ st.stopped THEN st
    ELSE JsonLoop(JsonStep(st, i, product_matches[i + 1], query), i + 1,
                  product_matches, query)

\* the state of the loop when it ends: counters, products, tuples looked at
ExtractJsonState(product_matches, query) ==
    JsonLoop(JsonInitState, 0, product_matches, query)

ExtractJsonData(product_matches, query) ==
    ExtractJsonState(product_matches, query).products

(***************************************************************************)
(* Inputs of the structured-data extractor.  A page's record dump is three *)
(* runs of like records; a run may be empty.                               *)
(***************************************************************************)
MaxRunLen == 30

RunLens == {0, 5, MaxRunLen}

QueryLaptop == MkName("laptop", {"laptop"}, 6)

NameInspiron == MkName("Dell Inspiron 15 Laptop", {"laptop", "inspiron"}, 23)

NameCoolingPad == MkName("Dell Laptop Cooling Pad", {"laptop", "cooling pad", "pad"}, 23)

Text54900 == <<"5", "4", "9", "0", "0">>

RecordKinds ==
    { [prod_name |-> NameInspiron,   price_str |-> Text54900],
      [prod_name |-> NameCoolingPad, price_str |-> Text54900] }

SiteInfos == { {"amazon"}, {"flipkart"}, {"myntra"}, {"ajio"} }

JsonRecords ==
    { [prod_name |-> k.prod_name, price_str |-> k.price_str, site_info |-> s] :
          k \in RecordKinds, s \in SiteInfos }

JsonPages ==
    { Repeat(r1, n1) \o Repeat(r2, n2) \o Repeat(r3, n3) :
          r1 \in JsonRecords, r2 \in JsonRecords, r3 \in JsonRecords,
          n1 \in RunLens, n2 \in RunLens, n3 \in RunLens }

InitJson ==
    /\ groq_client = FALSE
    /\ op = "idle"
    /\ args = <<>>
    /\ invoked = <<>>
    /\ ret = <<>>

ExtractJsonDataCall ==
    /\ op = "idle"
    /\ \E product_matches \in JsonPages :
          /\ args' = [product_matches |-> product_matches, query |-> QueryLaptop]
          /\ ret' = ExtractJsonState(product_matches, QueryLaptop)
    /\ op' = "_extract_json_data"
    /\ UNCHANGED <<groq_client, invoked>>

NextJson == ExtractJsonDataCall

SpecJson == InitJson /\ [][NextJson]_vars

PlatformLabels ==
    {platform_chain[k].label : k \in 1..Len(platform_chain)} \cup {"BuyHatke"}

CountWith(s, Test(_)) == Cardinality(SelectIdx(s, Test))

\* the records of the result that carry a platform label
WithLabel(products, label) ==
    LET Is(p) == p.platform = label IN CountWith(products, Is)

\* the complete records of the input that the relevance filter passes and
\* that the chain attributes to a platform
Admissible(m, query) ==
    IsRelevantProduct(m.prod_name, query) /\ m.prod_name.len > 5

AdmissibleOf(product_matches, query, label) ==
    LET Is(m) == ClassifyPlatform(m.site_info) = label /\ Admissible(m, query)
    IN  CountWith(product_matches, Is)

JsonDone == op = "_extract_json_data"

\* C6: whatever the page and the query, the structured-data extractor returns
\* at most 25 records that carry one and the same platform label.
C6_PerPlatformCap ==
    JsonDone =>
        \A label \in PlatformLabels :
            WithLabel(ret.products, label) <= max_per_platform

\* a platform with more admissible records than the quota, cut down to the quota
C6_Witness ==
    /\ JsonDone
    /\ \E label \in PlatformLabels :
          /\ AdmissibleOf(args.product_matches, args.query, label) > max_per_platform
          /\ WithLabel(ret.products, label) = max_per_platform

\* C7: the quota is separate for every platform: while fewer than 60 records
\* are admitted in all, a platform with at most 25 complete records that pass
\* the relevance filter has all of them in the result.
C7_SeparateQuotas ==
    (JsonDone /\ Len(ret.products) < MaxProducts) =>
        \A label \in PlatformLabels :
            AdmissibleOf(args.product_matches, args.query, label) <= max_per_platform
                => WithLabel(ret.products, label)
                       = AdmissibleOf(args.product_matches, args.query, label)

\* C17: for every page and query the structured-data extractor returns at
\* most 60 records, and it stops as soon as the 60th record is admitted: the
\* last tuple it looked at is the one that became the 60th record.
C17_TotalCap ==
    JsonDone =>
        /\ Len(ret.products) <= MaxProducts
        /\ ret.seen <= Len(args.product_matches)
        /\ Len(ret.products) = MaxProducts =>
               /\ ret.stopped
               /\ ret.products[MaxProducts].id = <<"json_product", ret.seen>>
        /\ Len(ret.products) < MaxProducts => ret.seen = Len(args.product_matches)

\* the 60th record admitted while tuples that would pass are still unread
C17_Witness ==
    /\ JsonDone
    /\ Len(ret.products) = MaxProducts
    /\ ret.seen < Len(args.product_matches)
    /\ LET m == args.product_matches[ret.seen + 1]
       IN  /\ Admissible(m, args.query)
           /\ ret[QuotaCounter(ClassifyPlatform(m.site_info))] < max_per_platform

(***************************************************************************)
(* Price-comparison entries, merge and the detail-page comparison          *)
(***************************************************************************)
\* str.lower() of the platform texts of this model
LowerOf(platform) ==
    CASE platform = "Amazon"   -> "amazon"
      [] platform = "AMAZON"   -> "amazon"
      [] platform = "Flipkart" -> "flipkart"
      [] platform = "Croma"    -> "croma"
      [] platform = "Myntra"   -> "myntra"
      [] OTHER                 -> platform

MergeKeepsLast(primary_prices, additional_prices) ==
    LET all == primary_prices \o additional_prices
        Kept(i) == /\ Get(all[i], "platform", "") # "" \/ i <= Len(primary_prices)
                   /\ \A j \in (i + 1)..Len(all) :
                          LowerOf(Get(all[j], "platform", ""))
                              # LowerOf(Get(all[i], "platform", ""))
        RECURSIVE Pick(_)
        Pick(i) == IF i > Len(all) THEN <<>>
                   ELSE (IF Kept(i) THEN <<all[i]>> ELSE <<>>) \o Pick(i + 1)
    IN  Pick(1)

MergeSeparateSeen(primary_prices, additional_prices) ==
    LET Key(e) == LowerOf(Get(e, "platform", ""))
        RECURSIVE Pick(_, _, _)
        Pick(prices, i, need_platform) ==
            IF i > Len(prices) THEN <<>>
            ELSE (IF /\ \A j \in 1..(i - 1) : Key(prices[j]) # Key(prices[i])
                     /\ (need_platform => Key(prices[i]) # "")
                  THEN <<prices[i]>> ELSE <<>>) \o Pick(prices, i + 1, need_platform)
    IN  Pick(primary_prices, 1, FALSE) \o Pick(additional_prices, 1, TRUE)

\* _merge_price_data: the primary loop, then the additional loop, over one
\* seen_platforms set.  (Its except branch is taken only for an entry that is
\* no dict or whose platform is no text; the entries here are dicts with a
\* text platform.)
MergePriceData(primary_prices, additional_prices) ==
    LET RECURSIVE Loop(_, _, _, _)
        Loop(prices, i, need_platform, acc) ==
            IF i > Len(prices) THEN acc
            ELSE LET platform == LowerOf(Get(prices[i], "platform", ""))
                 IN  IF platform \notin acc.seen_platforms
                            /\ (need_platform => platform # "")
                     THEN Loop(prices, i + 1, need_platform,
                               [all_prices |-> Append(acc.all_prices, prices[i]),
                                seen_platforms |-> acc.seen_platforms \cup {platform}])
                     ELSE Loop(prices, i + 1, need_platform, acc)
        first == Loop(primary_prices, 1, FALSE,
                      [all_prices |-> <<>>, seen_platforms |-> {}])
    IN  Loop(additional_prices, 1, TRUE, first).all_prices

\* list.sort(key=...): stable, ascending in the key
SortByKey(s, Key(_)) ==
    LET Before(j, i) == Key(s[j]) < Key(s[i]) \/ (Key(s[j]) = Key(s[i]) /\ j < i)
        Rank(i) == Cardinality({j \in 1..Len(s) : Before(j, i)}) + 1
    IN  [r \in 1..Len(s) |-> s[CHOOSE i \in 1..Len(s) : Rank(i) = r]]

\* float('inf') among the prices of this model
Infinity == 1000000000

\* f"{num / den:.0f}": to the nearest whole number, a tie to the even one
RoundHalfEven(num, den) ==
    LET q == num \div den
        r == num % den
    IN  IF 2 * r < den THEN q
        ELSE IF 2 * r > den THEN q + 1
        ELSE IF q % 2 = 0 THEN q ELSE q + 1

BestPrice == [text |-> "Best Price"]

CheckPrice == [text |-> "Check Price"]

PercentHigher(d) == [text |-> "% Higher", percent |-> d]

\* the tail of _extract_price_comparison_from_html: one entry per price element
\* that yields a platform and a price, without repeats of (platform, price),
\* sorted with the unparsable prices last
HtmlEntry(button) ==
    [platform |-> button.platform,
     price |-> button.price,
     price_numeric |-> ParsePriceNumeric(button.price),
     availability |-> "Available",
     price_difference |-> button.price_difference]

ExtractPriceComparisonFromHtml(price_buttons) ==
    LET price_comparison == [i \in 1..Len(price_buttons) |-> HtmlEntry(price_buttons[i])]
        First(i) == \A j \in 1..(i - 1) :
                        ~ (/\ price_comparison[j].platform = price_comparison[i].platform
                           /\ price_comparison[j].price = price_comparison[i].price)
        RECURSIVE Unique(_)
        Unique(i) == IF i > Len(price_comparison) THEN <<>>
                     ELSE (IF First(i) THEN <<price_comparison[i]>> ELSE <<>>)
                              \o Unique(i + 1)
        Key(x) == IF x.price_numeric > 0 THEN x.price_numeric ELSE Infinity
    IN  SortByKey(Unique(1), Key)

\* an entry of _normalize_price_data / of a hidden element
AdditionalEntry(item) ==
    [platform |-> item.platform,
     price |-> item.price,
     price_numeric |-> ParsePriceNumeric(item.price),
     availability |-> "Available",
     source |-> "additional_data"]

\* an entry of _enhanced_price_extraction: it carries no price_numeric
EnhancedEntry(item, url) ==
    [platform |-> item.platform,
     price |-> item.price,
     availability |-> "Available",
     url |-> url]

EnhancedThreshold == 10

SortKeyZeroFirst(x) == Get(x, "price_numeric", 0)

\* key=lambda x: x.get('price_numeric', 0) or float('inf')
SortKey(x) ==
    IF Get(x, "price_numeric", 0) # 0 THEN Get(x, "price_numeric", 0) ELSE Infinity

PercentTruncated(price, lowest_price) == ((price - lowest_price) * 100) \div lowest_price

\* diff = ((price - lowest_price) / lowest_price) * 100, as f"{diff:.0f}"
PercentDiff(price, lowest_price) == RoundHalfEven((price - lowest_price) * 100, lowest_price)

\* the price_difference loop over the sorted entries
LabelPrices(all_prices) ==
    LET Valid(p) == Get(p, "price_numeric", 0) > 0
        valid == SelectIdx(all_prices, Valid)
        lowest_price == all_prices[CHOOSE i \in valid : \A j \in valid : i <= j].price_numeric
        Label(item) ==
            LET n == Get(item, "price_numeric", 0)
            IN  IF n > 0 /\ n > lowest_price THEN PercentHigher(PercentDiff(n, lowest_price))
                ELSE IF n > 0 THEN BestPrice
                ELSE CheckPrice
    IN  IF valid = {} THEN all_prices
        ELSE [i \in 1..Len(all_prices) |->
                 [k \in DOMAIN all_prices[i] \cup {"price_difference"} |->
                     IF k = "price_difference" THEN Label(all_prices[i])
                     ELSE all_prices[i][k]]]

NotAvailable == <<"N", "/", "A">>

\* _scrape_buyhatke_product_page_for_comparison, from the fetched response on
ScrapeProductPage(status_code, price_buttons, additional_items, enhanced_items, url) ==
    IF status_code = 404 THEN [success |-> FALSE, error |-> "Page not found"]
    ELSE IF status_code # 200 THEN [success |-> FALSE, error |-> "HTTP"]
    ELSE
    LET price_comparison == ExtractPriceComparisonFromHtml(price_buttons)
        additional == [i \in 1..Len(additional_items) |-> AdditionalEntry(additional_items[i])]
        enhanced == [i \in 1..Len(enhanced_items) |-> EnhancedEntry(enhanced_items[i], url)]
        additional_prices ==
            IF Len(price_comparison) + Len(additional) < EnhancedThreshold
            THEN additional \o enhanced ELSE additional
        merged == MergePriceData(price_comparison, additional_prices)
        all_prices == LabelPrices(SortByKey(merged, SortKey))
        valid == SelectIdx(all_prices, LAMBDA p : Get(p, "price_numeric", 0) > 0)
        prices == {all_prices[i].price_numeric : i \in valid}
    IN  IF Len(merged) > 0
        THEN [success |-> TRUE,
              price_comparison |-> all_prices,
              total_platforms |-> Len(all_prices),
              lowest_price |-> IF prices # {}
                               THEN FormatRupees(CHOOSE x \in prices : \A y \in prices : x <= y)
                               ELSE NotAvailable,
              highest_price |-> IF prices # {}
                                THEN FormatRupees(CHOOSE x \in prices : \A y \in prices : x >= y)
                                ELSE NotAvailable,
              current_price |-> Get(all_prices[1], "price", NotAvailable),
              extracted_from |-> "enhanced_buyhatke_product_page",
              source_url |-> url]
        ELSE [success |-> FALSE, error |-> "No price data found"]

(***************************************************************************)
(* Inputs and actions of the merge and of the detail-page comparison       *)
(***************************************************************************)
MaxMerge == 2

MaxButtons == 2

MaxAdditional == 1

MaxEnhanced == 1

Text52000Rs == <<"R", "s", ".", " ">> \o Tail(FormatRupees(52000))

\* entries handed to the merge: origin says which list the entry is drawn for
MergeEntries(origin) ==
    { [platform |-> p, price |-> FormatRupees(n), price_numeric |-> n, origin |-> origin] :
          p \in {"Amazon", "amazon", "Flipkart", ""}, n \in {54900, 52000} }

PriceButtons ==
    { [platform |-> p, price |-> t, price_difference |-> BestPrice] :
          p \in {"Amazon", "Flipkart", "Croma"},
          t \in {FormatRupees(54900), FormatRupees(52000), PriceNotAvailable} }

AdditionalItems ==
    { [platform |-> p, price |-> t] :
          p \in {"amazon", "Myntra"}, t \in {FormatRupees(60000), Text52000Rs} }

EnhancedItems ==
    { [platform |-> p, price |-> FormatRupees(40000)] : p \in {"Croma", "Myntra"} }

DetailUrl == "https://buyhatke.com/amazon-dell-inspiron-price-in-india-63-65418036"

InitCompare ==
    /\ groq_client = FALSE
    /\ op = "idle"
    /\ args = <<>>
    /\ invoked = <<>>
    /\ ret = <<>>

MergePriceDataCall ==
    /\ op = "idle"
    /\ \E primary_prices \in SeqsUpTo(MergeEntries("primary"), MaxMerge),
          additional_prices \in SeqsUpTo(MergeEntries("additional"), MaxMerge) :
          /\ args' = [primary_prices |-> primary_prices,
                      additional_prices |-> additional_prices]
          /\ ret' = MergePriceData(primary_prices, additional_prices)
    /\ op' = "_merge_price_data"
    /\ UNCHANGED <<groq_client, invoked>>

ScrapeProductPageCall ==
    /\ op = "idle"
    /\ \E status_code \in {200, 404, 500},
          price_buttons \in SeqsUpTo(PriceButtons, MaxButtons),
          additional_items \in SeqsUpTo(AdditionalItems, MaxAdditional),
          enhanced_items \in SeqsUpTo(EnhancedItems, MaxEnhanced) :
          /\ status_code # 200 =>
                 price_buttons = <<>> /\ additional_items = <<>> /\ enhanced_items = <<>>
          /\ args' = [status_code |-> status_code, price_buttons |-> price_buttons,
                      additional_items |-> additional_items,
                      enhanced_items |-> enhanced_items]
          /\ ret' = ScrapeProductPage(status_code, price_buttons, additional_items,
                                      enhanced_items, DetailUrl)
    /\ op' = "_scrape_buyhatke_product_page_for_comparison"
    /\ UNCHANGED <<groq_client, invoked>>

NextCompare == MergePriceDataCall \/ ScrapeProductPageCall

SpecCompare == InitCompare /\ [][NextCompare]_vars

MergeDone == op = "_merge_price_data"

PlatformKey(e) == LowerOf(Get(e, "platform", ""))

FirstWith(s, key) == CHOOSE i \in 1..Len(s) :
                         /\ PlatformKey(s[i]) = key
                         /\ \A j \in 1..(i - 1) : PlatformKey(s[j]) # key

\* C3: a secondary entry is in the merged list only if its platform is not
\* empty and no primary entry has that platform (whatever the case of the
\* letters); a platform of the primary list is represented by its first
\* primary entry and by nothing else; primary entries come before the
\* appended secondary ones.
C3_PrimaryWins ==
    MergeDone =>
        LET primary == args.primary_prices
            primary_keys == {PlatformKey(primary[i]) : i \in 1..Len(primary)}
        IN  /\ \A i \in 1..Len(ret) :
                   ret[i].origin = "additional" =>
                       /\ PlatformKey(ret[i]) # ""
                       /\ PlatformKey(ret[i]) \notin primary_keys
                       /\ ret[i] \in Range(args.additional_prices)
            /\ \A key \in primary_keys :
                   /\ Cardinality({i \in 1..Len(ret) : PlatformKey(ret[i]) = key}) = 1
                   /\ \E i \in 1..Len(ret) : ret[i] = primary[FirstWith(primary, key)]
            /\ \A i, j \in 1..Len(ret) :
                   (ret[i].origin = "additional" /\ ret[j].origin = "primary") => j < i

\* a conflict decided for the primary list, next to an appended secondary entry
C3_Witness ==
    /\ MergeDone
    /\ \E i \in 1..Len(args.primary_prices), j \in 1..Len(args.additional_prices) :
          /\ PlatformKey(args.primary_prices[i]) = PlatformKey(args.additional_prices[j])
          /\ args.primary_prices[i].platform # args.additional_prices[j].platform
          /\ args.primary_prices[i].price # args.additional_prices[j].price
    /\ \E i \in 1..Len(ret) : ret[i].origin = "additional"

ScrapeDone == op = "_scrape_buyhatke_product_page_for_comparison"

Numeric(e) == Get(e, "price_numeric", 0)

\* the merged list the handler sorts, from the inputs of the call
MergedOf(a) ==
    MergePriceData(
        ExtractPriceComparisonFromHtml(a.price_buttons),
        [i \in 1..Len(a.additional_items) |-> AdditionalEntry(a.additional_items[i])]
            \o [i \in 1..Len(a.enhanced_items) |->
                    EnhancedEntry(a.enhanced_items[i], DetailUrl)])

Abs(x) == IF x < 0 THEN 0 - x ELSE x

HtmlMaxCards == 50

MinNameLen == 5

FallbackNameLen == 13

batch_size == 15

MaxBatchedCards == 45

max_cards == 40

NoHref == {"(no href)"}

HasHref(a) == a.href # NoHref

CardClasses == {"text-left", "w-full", "flex"}

Filter(s, Test(_)) ==
    LET idx == SelectIdx(s, Test)
        RECURSIVE Pick(_)
        Pick(i) == IF i > Len(s) THEN <<>>
                   ELSE (IF i \in idx THEN <<s[i]>> ELSE <<>>) \o Pick(i + 1)
    IN  Pick(1)

FirstN(s, n) == SubSeq(s, 1, Min2(Len(s), n))

\* the three selector methods of _extract_html_products
HtmlProductLinks(anchors) ==
    LET method1 == Filter(anchors, LAMBDA a : {"text-left", "w-full"} \subseteq a.classes)
        method2 == Filter(anchors, LAMBDA a : HasHref(a) /\ "price-in-india" \in a.href)
        method3 == Filter(anchors, LAMBDA a : HasHref(a) /\ a.img)
    IN  IF method1 # <<>> THEN method1
        ELSE IF method2 # <<>> THEN method2
        ELSE method3

\* the dict built for the i-th card (i counts from 0); the name is the title,
\* or the fallback name when there is none or it is shorter than 5
HtmlProduct(i, link, query) ==
    LET name == IF link.title.len < MinNameLen
                THEN MkName("Product from <query> - <i>", {}, FallbackNameLen + query.len)
                ELSE link.title
    IN  [id |-> <<"html_product", i + 1>>,
         name |-> name,
         price |-> link.price,
         platform |-> ClassifyPlatform(link.site_info),
         extraction_method |-> "html_parsing",
         availability_status |-> "Available"]

ExtractHtmlProducts(anchors, query) ==
    LET product_links == FirstN(HtmlProductLinks(anchors), HtmlMaxCards)
        RECURSIVE Loop(_)
        Loop(i) ==
            IF i >= Len(product_links) THEN <<>>
            ELSE LET link == product_links[i + 1]
                     product == HtmlProduct(i, link, query)
                 IN  (IF HasHref(link) /\ product.name.len > MinNameLen
                      THEN <<product>> ELSE <<>>) \o Loop(i + 1)
    IN  Loop(0)

\* the card selectors of _extract_with_ollama_batched
BatchedCards(anchors) ==
    LET by_class == Filter(anchors, LAMBDA a : CardClasses \subseteq a.classes)
    IN  IF by_class # <<>> THEN by_class
        ELSE Filter(anchors, LAMBDA a : HasHref(a) /\ "price-in-india" \in a.href)

\* range(0, min(len(product_cards), 45), batch_size)
Batches(product_cards) ==
    LET n == Min2(Len(product_cards), MaxBatchedCards)
        count == (n + batch_size - 1) \div batch_size
    IN  [b \in 1..count |->
            SubSeq(product_cards, (b - 1) * batch_size + 1,
                   Min2(b * batch_size, Len(product_cards)))]

\* _extract_product_sections, on the markup of one batch
ProductSections(anchors) ==
    LET by_class == Filter(anchors, LAMBDA a : CardClasses \subseteq a.classes)
        by_href == Filter(anchors, LAMBDA a :
                       /\ HasHref(a) /\ "/" \in a.href
                       /\ a.href \cap {"amazon", "flipkart", "myntra"} # {})
    IN  FirstN(IF by_class # <<>> THEN by_class ELSE by_href, max_cards)

\* a reply of the model: [kind |-> "failed"], [kind |-> "text"] (no JSON array
\* in it) or [kind |-> "array", items |-> <<...>>]; an item is a dict with or
\* without a name
NoReply == [kind |-> "failed"]

\* 'id': f"ai_product_{i + 1}"
AiId(i) == <<"ai_product", i + 1>>

ParseOllamaResponse(reply) ==
    IF reply.kind # "array" THEN <<>>
    ELSE LET products_data == reply.items
             RECURSIVE Loop(_)
             Loop(i) ==
                 IF i >= Len(products_data) THEN <<>>
                 ELSE LET item == products_data[i + 1]
                          product == [id |-> AiId(i),
                                      name |-> Get(item, "name", MkName("Unknown Product", {}, 15)),
                                      price |-> Get(item, "price", PriceNotAvailable),
                                      platform |-> Get(item, "platform", "BuyHatke"),
                                      extraction_method |-> "ollama_ai"]
                      IN  (IF product.name.len > 0 /\ product.name.text # "Unknown Product"
                           THEN <<product>> ELSE <<>>) \o Loop(i + 1)
         IN  Loop(0)

\* _extract_with_ollama_ai: the model is called only when the batch has sections
ExtractWithOllamaAi(batch, reply) ==
    IF ProductSections(batch) = <<>> THEN [products |-> <<>>, called |-> FALSE]
    ELSE IF reply.kind = "failed" THEN [products |-> <<>>, called |-> TRUE]
    ELSE [products |-> ParseOllamaResponse(reply), called |-> TRUE]

\* the loop over the batches given up at the first batch that yields nothing
ExtractWithOllamaBatchedStopsOnFailure(anchors, replies) ==
    LET batches == Batches(BatchedCards(anchors))
        RECURSIVE Loop(_, _)
        Loop(b, acc) ==
            IF b > Len(batches) THEN acc
            ELSE LET r == ExtractWithOllamaAi(batches[b], replies[b])
                     next == [all_products |-> acc.all_products \o r.products,
                              calls |-> acc.calls \o (IF r.called THEN <<b>> ELSE <<>>),
                              per_batch |-> Append(acc.per_batch, r.products)]
                 IN  IF r.products = <<>> THEN next ELSE Loop(b + 1, next)
    IN  Loop(1, [all_products |-> <<>>, calls |-> <<>>, per_batch |-> <<>>])

\* _extract_with_ollama_batched: replies[b] answers the call made for batch b
ExtractWithOllamaBatched(anchors, replies) ==
    LET batches == Batches(BatchedCards(anchors))
        RECURSIVE Loop(_, _)
        Loop(b, acc) ==
            IF b > Len(batches) THEN acc
            ELSE LET r == ExtractWithOllamaAi(batches[b], replies[b])
                 IN  Loop(b + 1,
                          [all_products |-> acc.all_products \o r.products,
                           calls |-> acc.calls \o (IF r.called THEN <<b>> ELSE <<>>),
                           per_batch |-> Append(acc.per_batch, r.products)])
    IN  Loop(1, [all_products |-> <<>>, calls |-> <<>>, per_batch |-> <<>>])

ExtractWithOllamaAllSources(page, query, client, replies) ==
    LET json_products == ExtractJsonData(page.product_matches, query)
        html_products == ExtractHtmlProducts(page.anchors, query)
    IN  [products |-> json_products \o html_products,
         invoked |-> <<"_extract_json_data", "_extract_html_products">>,
         generate_calls |-> <<>>]

\* the three-way choice of _extract_with_ollama on the extractors' results;
\* batched is looked at only when the first two are empty and the client is set
\* the last resort tried whether or not a client exists
ExtractWithOllamaIgnoresClient(json_products, html_products, batched, client) ==
    IF json_products # <<>>
    THEN [products |-> json_products,
          invoked |-> <<"_extract_json_data">>,
          generate_calls |-> <<>>]
    ELSE IF html_products # <<>>
    THEN [products |-> html_products,
          invoked |-> <<"_extract_json_data", "_extract_html_products">>,
          generate_calls |-> <<>>]
    ELSE [products |-> batched.all_products,
          invoked |-> <<"_extract_json_data", "_extract_html_products",
                        "_extract_with_ollama_batched">>,
          generate_calls |-> batched.calls]

ExtractWithOllamaFrom(json_products, html_products, batched, client) ==
    IF json_products # <<>>
    THEN [products |-> json_products,
          invoked |-> <<"_extract_json_data">>,
          generate_calls |-> <<>>]
    ELSE IF html_products # <<>>
    THEN [products |-> html_products,
          invoked |-> <<"_extract_json_data", "_extract_html_products">>,
          generate_calls |-> <<>>]
    ELSE IF client
    THEN [products |-> batched.all_products,
          invoked |-> <<"_extract_json_data", "_extract_html_products",
                        "_extract_with_ollama_batched">>,
          generate_calls |-> batched.calls]
    ELSE [products |-> <<>>,
          invoked |-> <<"_extract_json_data", "_extract_html_products">>,
          generate_calls |-> <<>>]

\* _extract_with_ollama: the value returned, the extractors invoked in order
\* and the batches for which the model was called
ExtractWithOllama(page, query, client, replies) ==
    ExtractWithOllamaFrom(ExtractJsonData(page.product_matches, query),
                          ExtractHtmlProducts(page.anchors, query),
                          ExtractWithOllamaBatched(page.anchors, replies),
                          client)

\* _create_fallback_products
CreateFallbackProducts(query) ==
    << [id |-> <<"fallback", 1>>,
        name |-> MkName("<query> - AI Extraction Failed (Sample 1)", query.hits,
                        query.len + 36),
        price |-> FormatRupees(25999),
        platform |-> "Amazon",
        extraction_method |-> "fallback"] >>

\* search_products after a successful fetch: r is what _extract_with_ollama did
SearchProductsFrom(r, query) ==
    [returned |-> "products",
     products |-> IF r.products = <<>> THEN CreateFallbackProducts(query) ELSE r.products,
     extracted |-> r.products,
     invoked |-> <<"_fetch_page_html">> \o r.invoked]

\* search_products: fetched is FALSE when _fetch_page_html returns None
SearchProducts(fetched, page, query, client, replies) ==
    IF ~fetched
    THEN [returned |-> "None", products |-> <<>>, extracted |-> <<>>,
          invoked |-> <<"_fetch_page_html">>]
    ELSE SearchProductsFrom(ExtractWithOllama(page, query, client, replies), query)

(***************************************************************************)
(* Cross-query comparison: _generate_price_comparison_from_search          *)
(***************************************************************************)
\* the keywords of the code's vocabularies in one word of a product name
WordHits(w) ==
    CASE w = "Laptop"   -> {"laptop"}
      [] w = "Inspiron" -> {"inspiron"}
      [] w = "Sony"     -> {"sony"}
      [] w = "WH-CH520" -> {"wh-ch520", "ch520"}
      [] w = "wh-ch520" -> {"wh-ch520", "ch520"}
      [] w = "laptop"      -> {"laptop"}
      [] w = "inspiron"    -> {"inspiron"}
      [] w = "stand"       -> {"stand"}
      [] w = "cooling pad" -> {"cooling pad", "pad"}
      [] w = "phone"       -> {"phone"}
      [] w = "case"        -> {"case"}
      [] w = "headphone"   -> {"headphone", "phone"}
      [] w = "cable"       -> {"cable"}
      [] OTHER          -> {}

\* a query made of words: the words, their keywords, a length
MkQuery(words) ==
    [words |-> words,
     hits |-> UNION {WordHits(words[i]) : i \in 1..Len(words)},
     len |-> 6 * Len(words)]

\* search_queries, without the repeats
UniqueQueries(product_name) ==
    LET words == product_name.words
        shorter == (IF Len(words) >= 3 THEN <<FirstN(words, 2)>> ELSE <<>>)
                       \o (IF Len(words) >= 4 THEN <<FirstN(words, 3)>> ELSE <<>>)
        sony == IF "sony" \in product_name.hits
                       /\ product_name.hits \cap {"wh-ch520", "ch520"} # {}
                THEN <<(<<"Sony", "wh-ch520">>)>> ELSE <<>>
        search_queries == <<words>> \o shorter \o sony
        First(i) == \A j \in 1..(i - 1) : search_queries[j] # search_queries[i]
        RECURSIVE Pick(_)
        Pick(i) == IF i > Len(search_queries) THEN <<>>
                   ELSE (IF First(i) THEN <<MkQuery(search_queries[i])>> ELSE <<>>)
                            \o Pick(i + 1)
    IN  Pick(1)

IsBetterCheaperOnly(price, availability, current) == price < current.price_numeric

\* is_better_availability or is_better_price
IsBetter(price, availability, current) ==
    \/ availability = "Available" /\ current.availability # "Available"
    \/ price < current.price_numeric /\ availability = current.availability

\* the grouping loop: platforms_seen, a dict in insertion order
GroupByPlatform(search_results) ==
    LET Entry(product, price, availability) ==
            [platform |-> Get(product, "platform", "Unknown"),
             price |-> product.price,
             price_numeric |-> price,
             availability |-> availability,
             price_difference |-> [text |-> ""]]
        RECURSIVE Loop(_, _)
        Loop(i, platforms_seen) ==
            IF i > Len(search_results) THEN platforms_seen
            ELSE LET product == search_results[i]
                     platform == Get(product, "platform", "Unknown")
                     price_str == RemoveAll(RemoveAll(Get(product, "price", <<Rupee, "0">>),
                                                      <<Rupee>>), <<",">>)
                     availability == Get(product, "availability_status", "Available")
                     at == {k \in 1..Len(platforms_seen) :
                                platforms_seen[k].platform = platform}
                     k == CHOOSE x \in at : TRUE
                     v == FloatOf(Strip(price_str))
                 IN  IF availability = "Out of Stock" /\ at # {} THEN Loop(i + 1, platforms_seen)
                     ELSE IF ~v.ok THEN Loop(i + 1, platforms_seen)
                     ELSE IF at = {}
                     THEN Loop(i + 1, Append(platforms_seen, Entry(product, v.val, availability)))
                     ELSE IF IsBetter(v.val, availability, platforms_seen[k])
                     THEN Loop(i + 1, [platforms_seen EXCEPT
                                          ![k] = Entry(product, v.val, availability)])
                     ELSE Loop(i + 1, platforms_seen)
    IN  Loop(1, <<>>)

ComparisonFailed == [error |-> "comparison_failed"]

NoSearchResults == [error |-> "no_search_results"]

\* the labels given after the sort: a higher price over a lowest price of 0
\* divides by zero
LabelAgainstLowest(sorted, lowest_price) ==
    [i \in 1..Len(sorted) |->
        [sorted[i] EXCEPT !.price_difference =
            IF sorted[i].price_numeric > lowest_price
            THEN PercentHigher(PercentDiff(sorted[i].price_numeric, lowest_price))
            ELSE BestPrice]]

ComparisonResult(product_name, price_comparison) ==
    [success |-> TRUE,
     product_name |-> product_name,
     price_comparison |-> price_comparison,
     total_platforms |-> Len(price_comparison),
     lowest_price |-> IF price_comparison # <<>> THEN price_comparison[1].price
                      ELSE NotAvailable,
     highest_price |-> IF price_comparison # <<>>
                       THEN price_comparison[Len(price_comparison)].price
                       ELSE NotAvailable,
     current_price |-> IF price_comparison # <<>> THEN price_comparison[1].price
                       ELSE PriceNotAvailable,
     extracted_from |-> "price_comparison"]

ComparisonOfSorted(product_name, sorted) ==
    IF sorted = <<>> THEN ComparisonResult(product_name, <<>>)
    ELSE IF sorted[1].price_numeric = 0
            /\ \E i \in 1..Len(sorted) : sorted[i].price_numeric > 0
    THEN ComparisonFailed
    ELSE ComparisonResult(product_name, LabelAgainstLowest(sorted, sorted[1].price_numeric))

\* the handler from the collected all_search_results on
PriceComparisonFromResults(product_name, all_search_results) ==
    IF all_search_results = <<>> THEN NoSearchResults
    ELSE ComparisonOfSorted(product_name,
                            SortByKey(GroupByPlatform(all_search_results),
                                      LAMBDA x : x.price_numeric))

\* envs[q] is what the q-th search meets: [fetched, page, replies]
GeneratePriceComparisonFromSearch(product_name, envs, client) ==
    LET unique_queries == UniqueQueries(product_name)
        Results(q) == SearchProducts(envs[q].fetched, envs[q].page, unique_queries[q],
                                     client, envs[q].replies)
        RECURSIVE Collect(_)
        Collect(q) == IF q > Len(unique_queries) THEN <<>>
                      ELSE Results(q).products \o Collect(q + 1)
    IN  PriceComparisonFromResults(product_name, Collect(1))

(***************************************************************************)
(* Inputs and actions of the search orchestrator                           *)
(***************************************************************************)
MaxAnchorRun == 31

AnchorRunLens == {0, 1, batch_size + 1, MaxAnchorRun}

NamePixel == MkName("Pixel", {"pixel"}, 5)

NoTitle == MkName("", {}, 0)

MkAnchor(classes, href, title) ==
    [classes |-> classes, href |-> href, title |-> title, img |-> TRUE,
     site_info |-> href \cap {"amazon", "flipkart", "myntra"},
     price |-> FormatRupees(54900)]

AnchorKinds ==
    { MkAnchor(CardClasses, {"/", "amazon", "price-in-india"}, NameInspiron),
      MkAnchor(CardClasses, NoHref, NameInspiron),
      MkAnchor(CardClasses, {"/", "flipkart", "price-in-india"}, NamePixel),
      MkAnchor({}, {"/", "amazon", "price-in-india"}, NoTitle),
      MkAnchor({}, {"/", "other"}, NameInspiron) }

AnchorLists ==
    { Repeat(a1, n1) \o Repeat(a2, n2) :
          a1 \in AnchorKinds, a2 \in AnchorKinds,
          n1 \in AnchorRunLens, n2 \in AnchorRunLens }

MkRecord(name, site) == [prod_name |-> name, price_str |-> Text54900, site_info |-> site]

ShortDumps ==
    { <<>>,
      <<MkRecord(NameInspiron, {"amazon"})>>,
      <<MkRecord(NameCoolingPad, {"amazon"})>>,
      <<MkRecord(NameCoolingPad, {"amazon"}), MkRecord(NameInspiron, {"flipkart"}),
        MkRecord(NameInspiron, {"amazon"})>> }

Pages == [product_matches : ShortDumps, anchors : AnchorLists]

Replies ==
    { NoReply, [kind |-> "text"] } \cup
    { [kind |-> "array", items |-> items] :
          items \in { <<>>, <<[name |-> NameInspiron, price |-> FormatRupees(52000),
                               platform |-> "Flipkart"]>>,
                      <<[price |-> FormatRupees(52000)],
                        [name |-> NameInspiron, price |-> FormatRupees(54900)]>> } }

NoReplies == [b \in 1..(MaxBatchedCards \div batch_size) |-> NoReply]

ReplySeqs == [1..(MaxBatchedCards \div batch_size) -> Replies]

\* the pages of the searches that the comparison path and search_products meet
SmallPages ==
    { [product_matches |-> <<>>, anchors |-> <<>>],
      [product_matches |-> <<MkRecord(NameInspiron, {"amazon"})>>, anchors |-> <<>>],
      [product_matches |-> <<MkRecord(NameCoolingPad, {"flipkart"})>>, anchors |-> <<>>],
      [product_matches |-> <<>>,
       anchors |-> <<MkAnchor(CardClasses, {"/", "flipkart", "price-in-india"}, NameInspiron)>>],
      [product_matches |-> <<>>,
       anchors |-> Repeat(MkAnchor(CardClasses, NoHref, NameInspiron), batch_size + 1)] }

SearchEnvs ==
    { [fetched |-> FALSE, page |-> [product_matches |-> <<>>, anchors |-> <<>>],
       replies |-> NoReplies] }
    \cup { [fetched |-> TRUE, page |-> pg, replies |-> NoReplies] : pg \in SmallPages }
    \cup { [fetched |-> TRUE, page |-> pg, replies |-> r] :
               pg \in {q \in SmallPages : BatchedCards(q.anchors) # <<>>
                                             /\ ExtractHtmlProducts(q.anchors, QueryLaptop) = <<>>},
               r \in [1..(MaxBatchedCards \div batch_size) ->
                         {NoReply, [kind |-> "array",
                                    items |-> <<[name |-> NameInspiron,
                                                 price |-> FormatRupees(52000),
                                                 platform |-> "Flipkart"]>>]}] }

ProductNames ==
    { MkQuery(<<"Laptop">>),
      MkQuery(<<"Dell", "Inspiron", "Laptop">>),
      MkQuery(<<"Sony", "WH-CH520">>) }

\* the credentials a construction may find: none, an empty text, a key
Credentials == {"None", "", "gsk_key"}

\* bool() of a credential
Truthy(key) == key \notin {"None", ""}

\* __init__: self.groq_client is a client (TRUE) or None (FALSE)
InitGroqClient(groq_api_key, env_key) ==
    LET key == IF Truthy(groq_api_key) THEN groq_api_key ELSE env_key
    IN  Truthy(key)

Init ==
    /\ groq_client \in {InitGroqClient(k, e) : k \in Credentials, e \in Credentials}
    /\ op = "idle"
    /\ args = <<>>
    /\ invoked = <<>>
    /\ ret = <<>>

\* the replies matter only when the generative extractor is reached
ReachesGenerative(page, query, client) ==
    /\ client
    /\ ExtractJsonData(page.product_matches, query) = <<>>
    /\ ExtractHtmlProducts(page.anchors, query) = <<>>
    /\ BatchedCards(page.anchors) # <<>>

RepliesFor(page, query, client, replies) ==
    IF ReachesGenerative(page, query, client) THEN replies ELSE {NoReplies}

ExtractWithOllamaReturns(page, query, replies, r) ==
    /\ args' = [page |-> page, query |-> query, replies |-> replies]
    /\ invoked' = r.invoked
    /\ ret' = [products |-> r.products, generate_calls |-> r.generate_calls]

ExtractWithOllamaCall ==
    /\ op = "idle"
    /\ \E page \in Pages :
          \E replies \in RepliesFor(page, QueryLaptop, groq_client, ReplySeqs) :
              ExtractWithOllamaReturns(page, QueryLaptop, replies,
                  ExtractWithOllama(page, QueryLaptop, groq_client, replies))
    /\ op' = "_extract_with_ollama"
    /\ UNCHANGED groq_client

SearchProductsReturns(env, query, r) ==
    /\ args' = [env |-> env, query |-> query]
    /\ invoked' = r.invoked
    /\ ret' = [returned |-> r.returned, products |-> r.products, extracted |-> r.extracted]

SearchProductsCall ==
    /\ op = "idle"
    /\ \E env \in SearchEnvs :
          SearchProductsReturns(env, QueryLaptop,
              SearchProducts(env.fetched, env.page, QueryLaptop, groq_client, env.replies))
    /\ op' = "search_products"
    /\ UNCHANGED groq_client

GeneratePriceComparisonCall ==
    /\ op = "idle"
    /\ \E product_name \in ProductNames :
          \E envs \in [1..Len(UniqueQueries(product_name)) -> SearchEnvs] :
              /\ args' = [product_name |-> product_name, envs |-> envs]
              /\ ret' = GeneratePriceComparisonFromSearch(product_name, envs, groq_client)
              /\ invoked' = [q \in 1..Len(envs) |-> "search_products"]
    /\ op' = "_generate_price_comparison_from_search"
    /\ UNCHANGED groq_client

Next == ExtractWithOllamaCall \/ SearchProductsCall \/ GeneratePriceComparisonCall

Spec == Init /\ [][Next]_vars

(***************************************************************************)
(* Claims about the search orchestrator                                    *)
(***************************************************************************)
ExtractDone == op = "_extract_with_ollama"

ExtractorOrder ==
    <<"_extract_json_data", "_extract_html_products", "_extract_with_ollama_batched">>

\* what the orchestrator did (invoked, products, generate_calls) against the
\* outputs json_products and html_products of the first two extractors
FirstNonEmptyWins(json_products, html_products) ==
    /\ Len(invoked) <= Len(ExtractorOrder)
    /\ \A i \in 1..Len(invoked) : invoked[i] = ExtractorOrder[i]
    /\ json_products # <<>> =>
          /\ invoked = <<"_extract_json_data">>
          /\ ret.products = json_products
          /\ ret.generate_calls = <<>>
    /\ (json_products = <<>> /\ html_products # <<>>) =>
          /\ invoked = <<"_extract_json_data", "_extract_html_products">>
          /\ ret.products = html_products
          /\ ret.generate_calls = <<>>

\* C1: _extract_with_ollama consults the extractors in the order structured
\* data, markup, generative and returns the output of the first non-empty one:
\* when the structured extractor yields a record nothing else is invoked, and
\* when it yields none and the markup extractor yields n >= 1 records the
\* result is exactly those n records and the model is never called.
C1_FirstNonEmptyExtractor ==
    ExtractDone =>
        FirstNonEmptyWins(ExtractJsonData(args.page.product_matches, args.query),
                          ExtractHtmlProducts(args.page.anchors, args.query))

\* no structured record, several markup records, a credential and cards the
\* generative extractor would have been given
C1_Witness ==
    /\ ExtractDone
    /\ groq_client
    /\ ExtractJsonData(args.page.product_matches, args.query) = <<>>
    /\ Len(ExtractHtmlProducts(args.page.anchors, args.query)) > 1
    /\ BatchedCards(args.page.anchors) # <<>>
    /\ Len(ret.products) > 1

\* C18: a missing credential is not an error: a scraper constructed without
\* one has no client, and an extraction in which the structured and the markup
\* extractor both yield nothing then returns an empty result without the
\* generative extractor being invoked and without a call of the model.
C18_MissingCredentialSkipsGenerative ==
    /\ \A k \in Credentials, e \in Credentials :
           (~Truthy(k) /\ ~Truthy(e)) => InitGroqClient(k, e) = FALSE
    /\ (/\ ExtractDone
        /\ ~groq_client
        /\ ExtractJsonData(args.page.product_matches, args.query) = <<>>
        /\ ExtractHtmlProducts(args.page.anchors, args.query) = <<>>)
           => /\ ret.products = <<>>
              /\ ret.generate_calls = <<>>
              /\ invoked = <<"_extract_json_data", "_extract_html_products">>

\* no client, nothing from either extractor, and cards the generative
\* extractor would have been given
C18_Witness ==
    /\ ExtractDone
    /\ ~groq_client
    /\ ExtractJsonData(args.page.product_matches, args.query) = <<>>
    /\ ExtractHtmlProducts(args.page.anchors, args.query) = <<>>
    /\ BatchedCards(args.page.anchors) # <<>>
    /\ ret.products = <<>>

SearchDone == op = "search_products"

\* C2: when the fetch succeeds and every extractor yields nothing,
\* search_products returns an empty result, and every record it returns was
\* produced by an extractor from the fetched page.
C2_NoFabricatedRecords ==
    (SearchDone /\ args.env.fetched) =>
        Range(ret.products)
            \subseteq Range(ExtractWithOllama(args.env.page, args.query, groq_client,
                                              args.env.replies).products)

ComparisonDone == op = "_generate_price_comparison_from_search"

\* the q-th search of the comparison path extracted nothing from a page
NothingExtracted(q) ==
    \/ ~args.envs[q].fetched
    \/ ExtractWithOllama(args.envs[q].page, UniqueQueries(args.product_name)[q],
                         groq_client, args.envs[q].replies).products = <<>>

\* C9: _generate_price_comparison_from_search reports "no_search_results"
\* whenever none of its searches yields a record extracted from a page, and
\* never reports success on placeholder records alone.
C9_NoSearchResultsReported ==
    (ComparisonDone /\ \A q \in 1..Len(args.envs) : NothingExtracted(q)) =>
        ret = NoSearchResults

\* C10: the ids of the records returned by one call of _extract_with_ollama
\* are pairwise distinct, whichever extractor produced them.
C10_DistinctIds ==
    ExtractDone =>
        \A i, j \in 1..Len(ret.products) :
            i # j => ret.products[i].id # ret.products[j].id

(***************************************************************************)
(* The grouping of _generate_price_comparison_from_search on any list of   *)
(* candidates (what the searches returned)                                 *)
(***************************************************************************)
MaxCandidates == 3

Availabilities == {"Available", "Out of Stock", "Limited Stock", "Price Not Available"}

Candidates ==
    { [name |-> NameInspiron, platform |-> pf, price |-> FormatRupees(n),
       availability_status |-> av] :
          pf \in {"Amazon", "Flipkart"}, n \in {50, 100}, av \in Availabilities }

InitAggregate ==
    /\ groq_client = FALSE
    /\ op = "idle"
    /\ args = <<>>
    /\ invoked = <<>>
    /\ ret = <<>>

\* the handler from "if not all_search_results" on, for the list the searches
\* collected
PriceComparisonFromResultsCall ==
    /\ op = "idle"
    /\ \E search_results \in SeqsUpTo(Candidates, MaxCandidates) :
          /\ args' = [product_name |-> MkQuery(<<"Laptop">>),
                      search_results |-> search_results]
          /\ ret' = PriceComparisonFromResults(MkQuery(<<"Laptop">>), search_results)
    /\ invoked' = <<>>
    /\ op' = "price_comparison_from_results"
    /\ UNCHANGED groq_client

NextAggregate == PriceComparisonFromResultsCall

SpecAggregate == InitAggregate /\ [][NextAggregate]_vars

AggregateDone == op = "price_comparison_from_results" /\ args.search_results # <<>>

\* float(price.replace('₹', '').replace(',', '')) of a candidate
CandidatePrice(c) == FloatOf(Strip(RemoveAll(RemoveAll(c.price, <<Rupee>>), <<",">>))).val

OfPlatform(cands, pf) == {k \in 1..Len(cands) : cands[k].platform = pf}

OneEntryPerPlatform(cands, entries) ==
    /\ \A k \in 1..Len(cands) :
           Cardinality({i \in 1..Len(entries) : entries[i].platform = cands[k].platform}) = 1
    /\ \A i \in 1..Len(entries) : OfPlatform(cands, entries[i].platform) # {}

AvailableWins(cands, e) ==
    (\E k \in OfPlatform(cands, e.platform) : cands[k].availability_status = "Available")
        => e.availability = "Available"

\* no candidate of e's platform with e's availability, outside the
\* availabilities in exempt, is cheaper than e
CheapestOfItsAvailability(cands, e, exempt) ==
    \A k \in OfPlatform(cands, e.platform) :
        (cands[k].availability_status = e.availability
             /\ e.availability \notin exempt)
            => ~(CandidatePrice(cands[k]) < e.price_numeric)

BestPerPlatform(cands, entries, exempt) ==
    /\ OneEntryPerPlatform(cands, entries)
    /\ \A i \in 1..Len(entries) :
           /\ AvailableWins(cands, entries[i])
           /\ CheapestOfItsAvailability(cands, entries[i], exempt)

\* C8 as stated: one entry per platform; the entry e of a platform is
\* Available if any of its candidates is, and no candidate of that platform
\* with e's availability is cheaper than e.
C8_BestPerPlatform ==
    AggregateDone => BestPerPlatform(args.search_results, ret.price_comparison, {})

\* C8 amended: as stated, except for Out of Stock entries: an Out of Stock
\* candidate is skipped once its platform has an entry, so an Out of Stock
\* entry is the first candidate of its platform, not the cheapest.
C8_BestPerPlatformInStock ==
    AggregateDone =>
        BestPerPlatform(args.search_results, ret.price_comparison, {"Out of Stock"})

\* two platforms, and a platform whose first candidate is not Available and
\* whose Available candidate, coming later, is the entry kept
C8_Witness ==
    /\ AggregateDone
    /\ Len(ret.price_comparison) = 2
    /\ \E i \in 1..Len(ret.price_comparison) :
           \E k1, k2 \in OfPlatform(args.search_results, ret.price_comparison[i].platform) :
               /\ k1 < k2
               /\ args.search_results[k1].availability_status # "Available"
               /\ args.search_results[k2].availability_status = "Available"
               /\ CandidatePrice(args.search_results[k1])
                      < CandidatePrice(args.search_results[k2])
               /\ ret.price_comparison[i].availability = "Available"

(***************************************************************************)
(* Price history: PriceHistoryExtractor and add_price_snapshot             *)
(* A history is a sequence of entries [price, platform, timestamp,         *)
(* formatted_time]; {} is the empty function.  In the history              *)
(* specification `invoked` logs the histories: the one the first call was  *)
(* given, then the price_history each call returned.                       *)
(***************************************************************************)
EmptyStatistics == <<>>

\* _format_timestamp of the clock reading
FormatTimestamp(timestamp) == <<"formatted", timestamp>>

\* add_price_entry
AddPriceEntry(product_name, current_price, platform, now) ==
    [price |-> current_price,
     platform |-> platform,
     timestamp |-> now,
     formatted_time |-> FormatTimestamp(now)]

\* the parsable prices of a history, in order
RECURSIVE NumericPrices(_)
NumericPrices(price_history) ==
    IF price_history = <<>> THEN <<>>
    ELSE LET v == FloatOf(Strip(RemoveAll(RemoveAll(Get(Head(price_history), "price", <<>>),
                                                    <<Rupee>>), <<",">>)))
         IN  (IF v.ok THEN <<v.val>> ELSE <<>>) \o NumericPrices(Tail(price_history))

RECURSIVE SumOf(_)
SumOf(prices) == IF prices = <<>> THEN 0 ELSE Head(prices) + SumOf(Tail(prices))

MinOf(prices) == CHOOSE x \in Range(prices) : \A y \in Range(prices) : x <= y

MaxOf(prices) == CHOOSE x \in Range(prices) : \A y \in Range(prices) : x >= y

\* f"₹{amount:,.0f} ({percent:.1f}%)": the amount and the tenths of a percent
Change(amount, first) ==
    [amount |-> FormatRupees(amount), percent_tenths |-> RoundHalfEven(amount * 1000, first)]

StatisticsNoAnnotation(price_history, prices) ==
    [current_price |-> Get(price_history[Len(price_history)], "price", NotAvailable),
     lowest_price |-> FormatRupees(MinOf(prices)),
     highest_price |-> FormatRupees(MaxOf(prices)),
     average_price |-> FormatRupees(RoundHalfEven(SumOf(prices), Len(prices))),
     total_entries |-> Len(price_history)]

AnnotateEqualAsDrop(stats, first, last, count) ==
    IF count > 1 /\ last <= first
    THEN IF first = 0 THEN EmptyStatistics
         ELSE stats @@ [price_drop |-> Change(first - last, first)]
    ELSE IF count > 1 /\ last > first
    THEN IF first = 0 THEN EmptyStatistics
         ELSE stats @@ [price_increase |-> Change(last - first, first)]
    ELSE stats

\* lines 81-91; the division by a first price of 0 raises ZeroDivisionError,
\* which the outer except turns into {}
Annotate(stats, first, last, count) ==
    IF count > 1 /\ last < first
    THEN IF first = 0 THEN EmptyStatistics
         ELSE stats @@ [price_drop |-> Change(first - last, first)]
    ELSE IF count > 1 /\ last > first
    THEN IF first = 0 THEN EmptyStatistics
         ELSE stats @@ [price_increase |-> Change(last - first, first)]
    ELSE stats

StatisticsOf(price_history, prices) ==
    IF prices = <<>> THEN EmptyStatistics
    ELSE Annotate(StatisticsNoAnnotation(price_history, prices),
                  prices[1], prices[Len(prices)], Len(prices))

\* calculate_statistics
CalculateStatistics(price_history) ==
    IF price_history = <<>> THEN EmptyStatistics
    ELSE StatisticsOf(price_history, NumericPrices(price_history))

\* existing_history is [is_none, items]; existing_after is the list object the
\* caller passed, as it is after the call
SnapshotInPlace(product_data, existing_history, new_entry) ==
    [result |->
        [product_name |-> Get(product_data, "name", "Unknown"),
         price_history |-> existing_history.items \o <<new_entry>>,
         statistics |-> CalculateStatistics(existing_history.items \o <<new_entry>>),
         last_updated |-> new_entry.formatted_time],
     existing_after |-> IF existing_history.is_none THEN existing_history
                        ELSE [existing_history EXCEPT !.items = @ \o <<new_entry>>]]

\* lines 3637-3651: price_history = existing_history + [new_entry] is a new list
Snapshot(product_data, existing_history, new_entry) ==
    [result |->
        [product_name |-> Get(product_data, "name", "Unknown"),
         price_history |-> existing_history.items \o <<new_entry>>,
         statistics |-> CalculateStatistics(existing_history.items \o <<new_entry>>),
         last_updated |-> new_entry.formatted_time],
     existing_after |-> existing_history]

\* add_price_snapshot; now is what datetime.now() reads
AddPriceSnapshot(product_data, existing_history, now) ==
    Snapshot(product_data, existing_history,
             AddPriceEntry(Get(product_data, "name", "Unknown"),
                           Get(product_data, "price", <<Rupee, "0">>),
                           Get(product_data, "platform", "Unknown"),
                           now))

(***************************************************************************)
(* Inputs and actions of the price history                                 *)
(***************************************************************************)
MaxSnapshots == 3

MaxClock == 2

TextNA == <<"N", "/", "A">>

ProductData ==
    { [name |-> "Dell Inspiron 15 Laptop", price |-> pr, platform |-> "Amazon"] :
          pr \in {FormatRupees(100), FormatRupees(50), FormatRupees(0), TextNA} }
    \cup { [name |-> "Dell Inspiron 15 Laptop"] }

NoHistory == [is_none |-> TRUE, items |-> <<>>]

ListOf(items) == [is_none |-> FALSE, items |-> items]

InitialHistories ==
    { NoHistory, ListOf(<<>>),
      ListOf(<<AddPriceEntry("Dell Inspiron 15 Laptop", FormatRupees(100), "Flipkart", 0)>>) }

InitHistory ==
    /\ groq_client = FALSE
    /\ op = "idle"
    /\ args = <<>>
    /\ invoked = <<>>
    /\ ret = <<>>

AddPriceSnapshotReturns(product_data, existing_history, now, r) ==
    /\ args' = [product_data |-> product_data, existing_history |-> existing_history,
                now |-> now, existing_after |-> r.existing_after]
    /\ ret' = r.result
    /\ invoked' = (IF op = "idle" THEN <<existing_history.items>> ELSE invoked)
                      \o <<r.result.price_history>>

\* the first call is given any initial history, every later call the
\* price_history the previous call returned
ExistingHistories ==
    IF op = "idle" THEN InitialHistories ELSE {ListOf(ret.price_history)}

AddPriceSnapshotCall ==
    /\ op \in {"idle", "add_price_snapshot"}
    /\ Len(invoked) <= MaxSnapshots
    /\ \E product_data \in ProductData, now \in 1..MaxClock :
          \E existing_history \in ExistingHistories :
              AddPriceSnapshotReturns(product_data, existing_history, now,
                  AddPriceSnapshot(product_data, existing_history, now))
    /\ op' = "add_price_snapshot"
    /\ UNCHANGED groq_client

MaxHistory == 3

\* the points of the histories handed to calculate_statistics; one has no price
PricePoints ==
    { [price |-> pr, platform |-> "Amazon", timestamp |-> 1,
       formatted_time |-> FormatTimestamp(1)] :
          pr \in {FormatRupees(100), FormatRupees(50), FormatRupees(0), TextNA} }
    \cup { [platform |-> "Amazon", timestamp |-> 1, formatted_time |-> FormatTimestamp(1)] }

CalculateStatisticsCall ==
    /\ op = "idle"
    /\ \E price_history \in SeqsUpTo(PricePoints, MaxHistory) :
          /\ args' = [price_history |-> price_history]
          /\ ret' = CalculateStatistics(price_history)
    /\ invoked' = <<>>
    /\ op' = "calculate_statistics"
    /\ UNCHANGED groq_client

NextHistory == AddPriceSnapshotCall \/ CalculateStatisticsCall

SpecHistory == InitHistory /\ [][NextHistory]_vars

SnapshotDone == op = "add_price_snapshot"

IsPrefix(s, t) == Len(s) <= Len(t) /\ SubSeq(t, 1, Len(s)) = s

\* C11: over a chain of add_price_snapshot calls, each given the history the
\* previous one returned, the history after the n-th call has n more points
\* than the initial one, every earlier history is a prefix of every later
\* one, the new point is last, and the list passed in is left unchanged.
C11_AppendOnly ==
    SnapshotDone =>
        /\ \A n \in 1..(Len(invoked) - 1) : Len(invoked[n + 1]) = Len(invoked[1]) + n
        /\ \A i, j \in 1..Len(invoked) : i <= j => IsPrefix(invoked[i], invoked[j])
        /\ ret.price_history = invoked[Len(invoked)]
        /\ ret.price_history[Len(ret.price_history)]
               = AddPriceEntry(Get(args.product_data, "name", "Unknown"),
                               Get(args.product_data, "price", <<Rupee, "0">>),
                               Get(args.product_data, "platform", "Unknown"),
                               args.now)
        /\ args.existing_after = args.existing_history

\* three calls in a row on a history that was not empty
C11_Witness ==
    /\ SnapshotDone
    /\ Len(invoked) = 4
    /\ Len(invoked[1]) = 1
    /\ Len(ret.price_history) = 4

StatisticsDone == op = "calculate_statistics"

HasField(d, key) == key \in DOMAIN d

\* the statistics the claim asks of a history with the parsable prices `prices`
StatisticsOverParsable(stats, price_history, prices) ==
    /\ HasField(stats, "current_price")
    /\ stats.current_price = Get(price_history[Len(price_history)], "price", NotAvailable)
    /\ stats.lowest_price = FormatRupees(MinOf(prices))
    /\ stats.highest_price = FormatRupees(MaxOf(prices))
    /\ stats.average_price = FormatRupees(RoundHalfEven(SumOf(prices), Len(prices)))

EmptyExactlyWhenUnparsable(stats, price_history, prices) ==
    /\ (DOMAIN stats = {}) <=> (prices = <<>>)
    /\ prices # <<>> => StatisticsOverParsable(stats, price_history, prices)

\* C12: calculate_statistics returns the empty result exactly when the
\* history is empty or has no parsable price; for every history with a
\* parsable price (prices of 0 included) it returns current_price = the last
\* point's display price and lowest, highest and average over all parsable
\* prices.
C12_StatisticsOfParsable ==
    StatisticsDone =>
        EmptyExactlyWhenUnparsable(ret, args.price_history, NumericPrices(args.price_history))

AnnotationRule(stats, price_history, prices) ==
    LET first == prices[1]
        last == prices[Len(prices)]
    IN  /\ HasField(stats, "price_drop") <=> (Len(prices) >= 2 /\ last < first)
        /\ HasField(stats, "price_increase") <=> (Len(prices) >= 2 /\ last > first)
        /\ ~(HasField(stats, "price_drop") /\ HasField(stats, "price_increase"))
        /\ (Len(price_history) = 1 \/ last = first) =>
               /\ ~HasField(stats, "price_drop")
               /\ ~HasField(stats, "price_increase")

FirstParsablePositive(prices) == prices # <<>> /\ prices[1] > 0

\* C13: for a history whose first parsable price is positive,
\* calculate_statistics attaches price_drop iff there are at least two
\* parsable prices and the last is lower than the first, price_increase iff
\* there are at least two and the last is higher, never both, and neither
\* for a history of one point or when first and last are equal.
C13_DropOrIncrease ==
    (StatisticsDone /\ FirstParsablePositive(NumericPrices(args.price_history))) =>
        AnnotationRule(ret, args.price_history, NumericPrices(args.price_history))

\* three points, the middle one unparsable, the last lower than the first:
\* a drop of 50 on 100, 50.0 percent
C13_Witness ==
    /\ StatisticsDone
    /\ Len(args.price_history) = 3
    /\ NumericPrices(args.price_history) = <<100, 50>>
    /\ HasField(ret, "price_drop")
    /\ ret.price_drop = [amount |-> FormatRupees(50), percent_tenths |-> 500]

(***************************************************************************)
(* Algebra of the merge                                                    *)
(***************************************************************************)
\* C14: merge is idempotent: merge(A, merge(A, B)) = merge(A, B), the same
\* entries in the same order, with A as primary.
C14_MergeIdempotent ==
    MergeDone => MergePriceData(args.primary_prices, ret) = ret

\* a primary entry, an additional entry of its platform that is dropped and
\* an additional entry of a new platform that is kept
C14_Witness ==
    /\ MergeDone
    /\ Len(args.primary_prices) >= 1
    /\ Len(args.additional_prices) = 2
    /\ Len(ret) > Len(args.primary_prices)
    /\ \E i \in 1..Len(args.additional_prices) :
           args.additional_prices[i] \notin Range(ret)
    /\ MergePriceData(args.primary_prices, ret) = ret

\* the orders in which the entries of a list can arrive
PermutationsOf(s) ==
    { [i \in 1..Len(s) |-> s[f[i]]] :
          f \in {g \in [1..Len(s) -> 1..Len(s)] :
                     \A i, j \in 1..Len(s) : g[i] = g[j] => i = j} }

PlatformKeys(s) == {PlatformKey(s[i]) : i \in 1..Len(s)}

EntriesOf(s, keys) == {s[i] : i \in {k \in 1..Len(s) : PlatformKey(s[k]) \in keys}}

\* merged and other agree on the platforms and on the entries of the
\* platforms of primary_prices
SameUpToSecondaryChoice(primary_prices, merged, other) ==
    /\ PlatformKeys(merged) = PlatformKeys(other)
    /\ EntriesOf(merged, PlatformKeys(primary_prices))
           = EntriesOf(other, PlatformKeys(primary_prices))

\* C20: the merge does not depend on the order in which the supplemental
\* results arrive: for every permutation of the secondary list the merged
\* list has the same platforms and the same entry for every platform of the
\* primary list.
C20_MergeOrderIndependent ==
    MergeDone =>
        \A permuted \in PermutationsOf(args.additional_prices) :
            SameUpToSecondaryChoice(args.primary_prices, ret,
                                    MergePriceData(args.primary_prices, permuted))

\* two secondary entries of one new platform, so that the two arrival orders
\* keep different entries, next to a platform of the primary list
C20_Witness ==
    /\ MergeDone
    /\ Len(args.primary_prices) >= 1
    /\ Len(args.additional_prices) = 2
    /\ PlatformKey(args.additional_prices[1]) = PlatformKey(args.additional_prices[2])
    /\ PlatformKey(args.additional_prices[1]) \notin PlatformKeys(args.primary_prices) \cup {""}
    /\ \E permuted \in PermutationsOf(args.additional_prices) :
           MergePriceData(args.primary_prices, permuted) # ret

(***************************************************************************)
(* _parse_price_numeric on any input.  An input is None, a whole number or *)
(* a text: [kind |-> "None"], [kind |-> "int", value |-> n],               *)
(* [kind |-> "str", text |-> t].                                           *)
(***************************************************************************)
\* "if not price_str: return 0", then str(price_str)
ParsePriceNumericAny(price_str) ==
    IF price_str.kind = "None" THEN 0
    ELSE IF price_str.kind = "int"
    THEN IF price_str.value = 0 THEN 0 ELSE ParsePriceNumeric(Digits(price_str.value))
    ELSE ParsePriceNumeric(price_str.text)

MaxTokens == 4

\* the pieces the texts are made of: the currency markers, blanks, digits,
\* a sign and a letter
TextTokens ==
    { <<Rupee>>, Mojibake, <<",">>, <<"R", "s", ".">>, <<"R", "s">>, <<" ">>,
      <<"5">>, <<"4", "9">>, <<"-">>, <<"x">> }

RECURSIVE Join(_)
Join(ts) == IF ts = <<>> THEN <<>> ELSE Head(ts) \o Join(Tail(ts))

ParseInputs ==
    { [kind |-> "None"], [kind |-> "int", value |-> 0], [kind |-> "int", value |-> 54900] }
    \cup { [kind |-> "str", text |-> Join(ts)] : ts \in SeqsUpTo(TextTokens, MaxTokens) }
    \cup { [kind |-> "str", text |-> t] :
               t \in {PriceNotAvailable, FormatRupees(54900), Text52000Rs} }

InitParse ==
    /\ groq_client = FALSE
    /\ op = "idle"
    /\ args = <<>>
    /\ invoked = <<>>
    /\ ret = <<>>

ParsePriceNumericCall ==
    /\ op = "idle"
    /\ \E price_str \in ParseInputs :
          /\ args' = [price_str |-> price_str]
          /\ ret' = ParsePriceNumericAny(price_str)
    /\ invoked' = <<>>
    /\ op' = "_parse_price_numeric"
    /\ UNCHANGED groq_client

NextParse == ParsePriceNumericCall

SpecParse == InitParse /\ [][NextParse]_vars

ParseDone == op = "_parse_price_numeric"

CurrencyMarkers == <<(<<Rupee>>), Mojibake, (<<",">>), (<<"R", "s", ".">>), (<<"R", "s">>)>>

RECURSIVE StripMarkers(_, _)
StripMarkers(text, k) ==
    IF k > Len(CurrencyMarkers) THEN text
    ELSE StripMarkers(RemoveAll(text, CurrencyMarkers[k]), k + 1)

\* the text of an input, as the claim reads it
TextOfInput(price_str) ==
    IF price_str.kind = "None" THEN <<>>
    ELSE IF price_str.kind = "int" THEN Digits(price_str.value)
    ELSE price_str.text

\* a whole number in decimal notation, with or without a minus sign
IsNumberText(t) ==
    LET digits == IF t # <<>> /\ Head(t) = "-" THEN Tail(t) ELSE t
    IN  /\ digits # <<>>
        /\ \A i \in 1..Len(digits) : digits[i] \in Range(DigitChars)

NumberOfText(t) == IF Head(t) = "-" THEN 0 - IntOf(Tail(t)) ELSE IntOf(t)

NumericOrZero(left) == IF IsNumberText(left) THEN NumberOfText(left) ELSE 0

MaxWords == 2

RelevanceWords ==
    {"dell", "laptop", "inspiron", "stand", "cooling pad", "phone", "case", "headphone",
     "cable"}

\* the texts of one to MaxWords words
WordTexts == {MkQuery(ws) : ws \in SeqsUpTo(RelevanceWords, MaxWords) \ {<<>>}}

InitRelevance ==
    /\ groq_client = FALSE
    /\ op = "idle"
    /\ args = <<>>
    /\ invoked = <<>>
    /\ ret = <<>>

IsRelevantProductCall ==
    /\ op = "idle"
    /\ \E product_name \in WordTexts \cup {NameInspiron, NameCoolingPad},
          query \in WordTexts :
          /\ args' = [product_name |-> product_name, query |-> query]
          /\ ret' = IsRelevantProduct(product_name, query)
    /\ invoked' = <<>>
    /\ op' = "_is_relevant_product"
    /\ UNCHANGED groq_client

NextRelevance == IsRelevantProductCall

SpecRelevance == InitRelevance /\ [][NextRelevance]_vars

RelevanceDone == op = "_is_relevant_product"

\* the query itself names an accessory
TargetsAccessories(query) == query.hits \cap accessory_keywords # {}

\* the name holds every word of the query
ContainsTermsOf(product_name, query) ==
    /\ "words" \in DOMAIN product_name
    /\ Range(query.words) \subseteq Range(product_name.words)

\* C16: _is_relevant_product rejects accessory candidates unless the query
\* itself targets accessories: for a query that names an accessory ("laptop
\* stand", "phone case") a candidate whose name contains the query's terms
\* is accepted, while for the query "laptop" the candidate "Dell Laptop
\* Cooling Pad" is rejected and "Dell Inspiron 15 Laptop" is accepted.
C16_AccessoryQueriesAccepted ==
    RelevanceDone =>
        /\ (TargetsAccessories(args.query) /\ ContainsTermsOf(args.product_name, args.query))
               => ret = TRUE
        /\ (args.query.words = <<"laptop">> /\ args.product_name = NameCoolingPad)
               => ret = FALSE
        /\ (args.query.words = <<"laptop">> /\ args.product_name = NameInspiron)
               => ret = TRUE

(***************************************************************************)
(* get_product_details and its retry after a 404 answer                    *)
(*                                                                         *)
(* One step is one frame of the recursion: the frame fetches product_url   *)
(* and either returns, which ends every frame below it on the stack        *)
(* (line 352 returns the nested call's value), or calls itself with the    *)
(* URL that find_real_buyhatke_url found.  invoked holds the URLs of the   *)
(* frames on the stack.                                                    *)
(***************************************************************************)
\* the frames the interpreter allows before it raises RecursionError
\* (sys.getrecursionlimit(), 1000 unless changed), kept small here
MaxDepth == 4

DetailUrls == {"https://buyhatke.com/a-1-1", "https://buyhatke.com/b-2-2",
               "https://buyhatke.com/c"}

NoUrl == "None"

HasNumericId(url) == url \in {"https://buyhatke.com/a-1-1", "https://buyhatke.com/b-2-2"}

\* the links with a numeric id when there are any, else all of them
PreferNumericIds(product_links) ==
    LET WithId(link) == link.has_numeric_id
        numeric_id_links == Filter(product_links, WithId)
    IN  IF numeric_id_links # <<>> THEN numeric_id_links ELSE product_links

\* find_real_buyhatke_url: search is what the search pages answered, with the
\* matching links already sorted by match score
FindRealBuyhatkeUrl(search) ==
    IF ~search.ok THEN NoUrl
    ELSE LET product_links == PreferNumericIds(search.product_links)
         IN  IF product_links # <<>> THEN product_links[1].url ELSE NoUrl

\* for url in product_urls[:3]: the number of URLs tried
FirstUrls(n) == IF n < 3 THEN n ELSE 3

\* one frame of get_product_details: what it returns, or the URL it retries
DetailsFrame(product_url, product_name, env) ==
    IF env.raised THEN [kind |-> "return", value |-> "comparison_from_search"]
    ELSE IF env.status = 404 THEN
        IF product_name # "None" /\ env.scrape_success_at \in 1..FirstUrls(env.product_urls)
        THEN [kind |-> "return", value |-> "price_data"]
        ELSE LET real_url == FindRealBuyhatkeUrl(env.search)
             IN  IF product_name # "None" /\ real_url # NoUrl /\ real_url # product_url
                 THEN [kind |-> "retry", url |-> real_url]
                 ELSE [kind |-> "return", value |-> "comparison_from_search"]
    ELSE IF env.status # 200 THEN [kind |-> "return", value |-> "None"]
    ELSE IF env.enhanced_success THEN [kind |-> "return", value |-> "enhanced_result"]
    ELSE [kind |-> "return", value |-> "product_details"]

Links == {[url |-> u, has_numeric_id |-> HasNumericId(u)] : u \in DetailUrls}

Searches ==
    {[ok |-> FALSE, product_links |-> <<>>], [ok |-> TRUE, product_links |-> <<>>]}
        \cup {[ok |-> TRUE, product_links |-> <<l>>] : l \in Links}
        \cup {[ok |-> TRUE, product_links |-> <<l1, l2>>] : l1 \in Links, l2 \in Links}

\* what the collaborators answer to one frame; raised: requests.get or a
\* later step of the frame raises
DetailEnvs ==
    {[raised |-> x, status |-> st, product_urls |-> n, scrape_success_at |-> k,
      search |-> se, enhanced_success |-> e] :
         x \in BOOLEAN, st \in {200, 404, 500}, n \in {0, 4}, k \in {0, 2, 4},
         se \in Searches, e \in BOOLEAN}

InitDetails ==
    /\ groq_client = FALSE
    /\ op = "idle"
    /\ args = <<>>
    /\ invoked = <<>>
    /\ ret = <<>>

GetProductDetailsCall ==
    /\ op = "idle"
    /\ \E product_url \in DetailUrls, product_name \in {"None", "Dell Inspiron 15 Laptop"} :
          args' = [product_url |-> product_url, product_name |-> product_name]
    /\ invoked' = <<args'.product_url>>
    /\ op' = "get_product_details.fetch"
    /\ UNCHANGED <<groq_client, ret>>

\* the frame on top of the stack returns; so does every frame below it
DetailsFrameReturns ==
    /\ op = "get_product_details.fetch"
    /\ \E env \in DetailEnvs :
          LET r == DetailsFrame(args.product_url, args.product_name, env)
          IN  /\ r.kind = "return"
              /\ ret' = [value |-> r.value, recursion_error |-> FALSE]
    /\ op' = "get_product_details"
    /\ UNCHANGED <<groq_client, args, invoked>>

\* line 352: the frame calls get_product_details(real_url, product_name)
DetailsFrameRetries ==
    /\ op = "get_product_details.fetch"
    /\ Len(invoked) < MaxDepth
    /\ \E env \in DetailEnvs :
          LET r == DetailsFrame(args.product_url, args.product_name, env)
          IN  /\ r.kind = "retry"
              /\ args' = [args EXCEPT !.product_url = r.url]
              /\ invoked' = Append(invoked, r.url)
    /\ UNCHANGED <<groq_client, op, ret>>

\* the nested call does not fit on the stack: RecursionError, caught by the
\* except of line 383, which falls back to the comparison from search
DetailsStackExhausted ==
    /\ op = "get_product_details.fetch"
    /\ Len(invoked) >= MaxDepth
    /\ \E env \in DetailEnvs :
          DetailsFrame(args.product_url, args.product_name, env).kind = "retry"
    /\ ret' = [value |-> "comparison_from_search", recursion_error |-> TRUE]
    /\ op' = "get_product_details"
    /\ UNCHANGED <<groq_client, args, invoked>>

NextDetails ==
    \/ GetProductDetailsCall
    \/ DetailsFrameReturns
    \/ DetailsFrameRetries
    \/ DetailsStackExhausted

SpecDetails == InitDetails /\ [][NextDetails]_vars

DetailsDone == op = "get_product_details"

\* C19: get_product_details terminates whatever the fetch and the search
\* answer because its retry after a 404 is bounded: no sequence of answers,
\* every URL answering 404 and every lookup returning another URL included,
\* makes it call itself until the stack is exhausted.
C19_RetryBounded ==
    /\ Len(invoked) <= MaxDepth
    /\ DetailsDone => ~ret.recursion_error

(***************************************************************************)
(* From the page's records to the tuples of _extract_json_data             *)
(*                                                                         *)
(* A record of the page is what the page says about one product variable:  *)
(* its name, price, site, whether it has a link, and the active flag and   *)
(* popularity of the record.                                               *)
(***************************************************************************)
HasLink(record) == record.has_link

\* for var_name in prod_dict: if var_name in link_dict
LinkedRecords(records) == Filter(records, HasLink)

\* the tuple appended for a record: popularity "0", is_active "1" and
\* internal_pid "0" are literals
ProductMatch(record) ==
    [prod_name |-> record.prod_name,
     price_str |-> record.price_str,
     site_info |-> record.site_info,
     popularity_str |-> <<"0">>,
     is_active_str |-> <<"1">>]

ProductMatches(records) ==
    LET linked == LinkedRecords(records)
    IN  [k \in 1..Len(linked) |-> ProductMatch(linked[k])]

MaxRecords == 2

Text0 == <<"0">>

PageRecords ==
    { [prod_name |-> n, price_str |-> p, site_info |-> s, has_link |-> l,
       popularity |-> pop, is_active |-> a] :
          n \in {NameInspiron, NameCoolingPad}, p \in {Text54900, Text0},
          s \in { {"amazon"} }, l \in BOOLEAN,
          pop \in {LowPopularity - 1, LowPopularity}, a \in {0, 1} }

ExtractJsonFromRecordsCall ==
    /\ op = "idle"
    /\ \E records \in SeqsUpTo(PageRecords, MaxRecords) :
          /\ args' = [records |-> records, query |-> QueryLaptop]
          /\ ret' = ExtractJsonState(ProductMatches(records), QueryLaptop)
    /\ op' = "_extract_json_data"
    /\ UNCHANGED <<groq_client, invoked>>

NextAvailability == ExtractJsonFromRecordsCall

SpecAvailability == InitJson /\ [][NextAvailability]_vars

\* the page's record a returned product was built from
RecordOf(product) == LinkedRecords(args.records)[product.id[2]]

\* C21: for every complete record the extractor derives the availability
\* from the record's own active flag, price and popularity: flag 0 gives
\* "Out of Stock", else price 0 gives "Price Not Available", else a
\* popularity below 10 gives "Limited Stock", else "Available".
C21_AvailabilityOfRecord ==
    JsonDone =>
        \A k \in 1..Len(ret.products) :
            LET record == RecordOf(ret.products[k])
                price == IF IsDigit(record.price_str) THEN IntOf(record.price_str) ELSE 0
            IN  ret.products[k].availability_status
                    = AvailabilityStatus(record.is_active, price, record.popularity)

(***************************************************************************)
(* The batches of the generative extractor                                 *)
(***************************************************************************)
GenerativeDone ==
    /\ op = "_extract_with_ollama"
    /\ ReachesGenerative(args.page, args.query, groq_client)

\* the cards of batch b counted from the card list, b = 1, 2, 3
CardsOfBatch(anchors, b) ==
    LET cards == BatchedCards(anchors)
    IN  SubSeq(cards, (b - 1) * batch_size + 1, Min2(b * batch_size, Len(cards)))

\* what batch b contributes by itself: the records of its reply when the
\* batch has cards to send and the reply holds a JSON array, else nothing
RecordsOfBatch(anchors, replies, b) ==
    IF /\ b \in DOMAIN replies
       /\ ProductSections(CardsOfBatch(anchors, b)) # <<>>
       /\ replies[b].kind = "array"
    THEN ParseOllamaResponse(replies[b])
    ELSE <<>>

\* C22: generative extraction processes at most 3 batches of at most 15
\* cards each, in order; a batch whose call fails or whose reply holds no
\* JSON array contributes nothing and leaves the other batches alone, and
\* the result is the concatenation in batch order of the batches' records.
C22_BatchesIndependent ==
    GenerativeDone =>
        /\ Len(ret.generate_calls) <= MaxBatchedCards \div batch_size
        /\ \A k \in 1..Len(ret.generate_calls) :
              /\ ret.generate_calls[k] \in 1..(MaxBatchedCards \div batch_size)
              /\ k > 1 => ret.generate_calls[k - 1] < ret.generate_calls[k]
              /\ Len(CardsOfBatch(args.page.anchors, ret.generate_calls[k])) \in 1..batch_size
        /\ ret.products = RecordsOfBatch(args.page.anchors, args.replies, 1)
                            \o RecordsOfBatch(args.page.anchors, args.replies, 2)
                            \o RecordsOfBatch(args.page.anchors, args.replies, 3)
        /\ Len(ret.products) = Len(RecordsOfBatch(args.page.anchors, args.replies, 1))
                                 + Len(RecordsOfBatch(args.page.anchors, args.replies, 2))
                                 + Len(RecordsOfBatch(args.page.anchors, args.replies, 3))

\* three batches called; the first fails, the second's reply is no array,
\* the third's records are the result
C22_Witness ==
    /\ GenerativeDone
    /\ ret.generate_calls = <<1, 2, 3>>
    /\ args.replies[1].kind = "failed"
    /\ args.replies[2].kind = "text"
    /\ ret.products # <<>>
    /\ ret.products = ParseOllamaResponse(args.replies[3])

(***************************************************************************)
(* Supplemental probes: _try_load_more_prices and _try_api_endpoints       *)
(*                                                                         *)
(* What an endpoint answers to one request:                                *)
(*   [kind |-> "timeout"]    requests raises (timeout, network error)      *)
(*   [kind |-> "status"]     a status other than 200                       *)
(*   [kind |-> "not_json"]   200 with a body that is not JSON              *)
(*   [kind |-> "json", shape |-> s, items |-> <<...>>]  200 with JSON:     *)
(*       "prices_list"  {"prices": [items]}                                *)
(*       "prices_null"  {"prices": null}                                   *)
(*       "prices_text"  {"prices": "soon"}                                 *)
(*       "no_prices"    {"status": "ok"}                                   *)
(*       "top_list"     [items]                                            *)
(* An item is a dict with a platform and a price, or a value that is no    *)
(* dict.  Platforms are title-cased and prices carry the rupee sign, which *)
(* _normalize_price_data leaves as they are.                               *)
(***************************************************************************)
\* the length of api_patterns
ApiPatterns == 4

DictItems(items) == Filter(items, LAMBDA item : item.dict)

\* api_prices.append({...}) of _try_api_endpoints
ApiEntry(price_item) ==
    [platform |-> price_item.platform,
     price |-> price_item.price,
     availability |-> "Available"]

\* one pass of the body of the loop of _try_api_endpoints: the entries it
\* appends, and whether an exception leaves the loop
ApiProbe(answer) ==
    IF answer.kind # "json" THEN [entries |-> <<>>, raised |-> FALSE]
    ELSE IF answer.shape \in {"no_prices", "top_list"}
    THEN [entries |-> <<>>, raised |-> FALSE]
    ELSE IF answer.shape = "prices_null"
    THEN [entries |-> <<>>, raised |-> TRUE]
    ELSE IF answer.shape = "prices_text"
    THEN [entries |-> <<>>, raised |-> FALSE]
    ELSE LET dicts == DictItems(answer.items)
         IN  [entries |-> [k \in 1..Len(dicts) |-> ApiEntry(dicts[k])], raised |-> FALSE]

\* _try_api_endpoints: has_id says whether the URL holds a product id
TryApiEndpoints(has_id, answers) ==
    LET RECURSIVE Loop(_, _)
        Loop(k, api_prices) ==
            IF k > ApiPatterns THEN api_prices
            ELSE LET r == ApiProbe(answers[k])
                 IN  IF r.raised THEN <<>>
                     ELSE Loop(k + 1, api_prices \o r.entries)
    IN  IF ~has_id THEN <<>> ELSE Loop(1, <<>>)

\* extract_from_api_response on the answers of this model, inside the bare
\* except of the loop of _try_load_more_prices
LoadMoreProbe(answer) ==
    IF answer.kind = "json" /\ answer.shape = "prices_list"
    THEN LET dicts == DictItems(answer.items)
         IN  [k \in 1..Len(dicts) |-> AdditionalEntry(dicts[k])]
    ELSE <<>>

\* _try_load_more_prices: has_id says whether the URL ends in a product id
TryLoadMorePrices(has_id, answers) ==
    LET RECURSIVE Loop(_, _)
        Loop(k, additional_prices) ==
            IF k > ApiPatterns THEN additional_prices
            ELSE Loop(k + 1, additional_prices \o LoadMoreProbe(answers[k]))
    IN  IF ~has_id THEN <<>> ELSE Loop(1, <<>>)

ProbeItemCroma == [dict |-> TRUE, platform |-> "Croma", price |-> FormatRupees(52000)]

ProbeItemMyntra == [dict |-> TRUE, platform |-> "Myntra", price |-> FormatRupees(54900)]

ProbeItemText == [dict |-> FALSE]

ProbeAnswers ==
    { [kind |-> "timeout"], [kind |-> "status"], [kind |-> "not_json"],
      [kind |-> "json", shape |-> "no_prices", items |-> <<>>],
      [kind |-> "json", shape |-> "prices_null", items |-> <<>>],
      [kind |-> "json", shape |-> "prices_text", items |-> <<>>],
      [kind |-> "json", shape |-> "top_list", items |-> <<ProbeItemCroma>>],
      [kind |-> "json", shape |-> "prices_list", items |-> <<ProbeItemCroma>>],
      [kind |-> "json", shape |-> "prices_list", items |-> <<ProbeItemText, ProbeItemMyntra>>] }

InitProbes ==
    /\ groq_client = FALSE
    /\ op = "idle"
    /\ args = <<>>
    /\ invoked = <<>>
    /\ ret = <<>>

TryLoadMorePricesCall ==
    /\ op = "idle"
    /\ \E has_id \in BOOLEAN, answers \in [1..ApiPatterns -> ProbeAnswers] :
          /\ args' = [has_id |-> has_id, answers |-> answers]
          /\ ret' = TryLoadMorePrices(has_id, answers)
    /\ op' = "_try_load_more_prices"
    /\ UNCHANGED <<groq_client, invoked>>

TryApiEndpointsCall ==
    /\ op = "idle"
    /\ \E has_id \in BOOLEAN, answers \in [1..ApiPatterns -> ProbeAnswers] :
          /\ args' = [has_id |-> has_id, answers |-> answers]
          /\ ret' = TryApiEndpoints(has_id, answers)
    /\ op' = "_try_api_endpoints"
    /\ UNCHANGED <<groq_client, invoked>>

NextProbes == TryLoadMorePricesCall \/ TryApiEndpointsCall

SpecProbes == InitProbes /\ [][NextProbes]_vars

\* a probe that answered 200 with the expected shape
ProbeSucceeded(answer) == answer.kind = "json" /\ answer.shape = "prices_list"

\* the number of entries a probe obtains by itself
EntriesObtained(answer) ==
    IF ProbeSucceeded(answer) THEN Len(DictItems(answer.items)) ELSE 0

\* the platforms of the entries of the k-th probe, in the result from
\* position from + 1 on
HoldsEntriesAt(result, from, answer) ==
    LET dicts == DictItems(answer.items)
    IN  \A j \in 1..EntriesObtained(answer) :
            /\ from + j <= Len(result)
            /\ result[from + j].platform = dicts[j].platform
            /\ result[from + j].price = dicts[j].price

RECURSIVE ObtainedBefore(_, _)
ObtainedBefore(answers, k) ==
    IF k <= 1 THEN 0
    ELSE ObtainedBefore(answers, k - 1) + EntriesObtained(answers[k - 1])

\* C23: the probes are independent in both routines: a probe that fails in
\* any way (no 200, timeout, body that is not JSON, JSON of another shape
\* such as a value under "prices" that is no list) contributes nothing, and
\* the entries of every other probe are all returned, wherever the failing
\* probe stands.
C23_ProbesIndependent ==
    (op \in {"_try_load_more_prices", "_try_api_endpoints"} /\ args.has_id) =>
        /\ Len(ret) = ObtainedBefore(args.answers, ApiPatterns + 1)
        /\ \A k \in 1..ApiPatterns :
              HoldsEntriesAt(ret, ObtainedBefore(args.answers, k), args.answers[k])

(***************************************************************************)
(* The cross-query comparison on candidates whose price is 0               *)
(***************************************************************************)
CandidatesWithUnknown ==
    { [name |-> NameInspiron, platform |-> pf, price |-> FormatRupees(n),
       availability_status |-> "Available"] :
          pf \in {"Amazon", "Flipkart", "Croma"}, n \in {0, 50, 100} }

\* the handler from "if not all_search_results" on, for collected lists that
\* hold candidates priced 0
PriceComparisonWithUnknownCall ==
    /\ op = "idle"
    /\ \E search_results \in SeqsUpTo(CandidatesWithUnknown, MaxCandidates) :
          /\ args' = [product_name |-> MkQuery(<<"Laptop">>),
                      search_results |-> search_results]
          /\ ret' = PriceComparisonFromResults(MkQuery(<<"Laptop">>), search_results)
    /\ invoked' = <<>>
    /\ op' = "price_comparison_from_results"
    /\ UNCHANGED groq_client

NextUnknown == PriceComparisonWithUnknownCall

SpecUnknown == InitAggregate /\ [][NextUnknown]_vars

\* a candidate priced 0 together with a priced one
UnknownAmongPriced ==
    /\ op = "price_comparison_from_results"
    /\ \E k \in 1..Len(args.search_results) : CandidatePrice(args.search_results[k]) = 0
    /\ \E k \in 1..Len(args.search_results) : CandidatePrice(args.search_results[k]) > 0

HasPositive(price_comparison) ==
    \E i \in 1..Len(price_comparison) : price_comparison[i].price_numeric > 0

LowestPositive(price_comparison) ==
    LET positive == {price_comparison[i].price_numeric : i \in 1..Len(price_comparison)}
                        \ {0}
    IN  CHOOSE x \in positive : \A y \in positive : x <= y

\* C24: in the cross-query comparison a price_numeric of 0 means unknown:
\* such entries come after all entries with a price above 0, the labels and
\* lowest_price / current_price are taken against the lowest price above 0,
\* and a candidate priced 0 beside priced ones still gives a successful
\* comparison, not an error.
C24_ZeroMeansUnknown ==
    UnknownAmongPriced =>
        /\ "success" \in DOMAIN ret
        /\ \A i \in 1..Len(ret.price_comparison), j \in 1..Len(ret.price_comparison) :
               (i < j /\ ret.price_comparison[i].price_numeric = 0)
                   => ret.price_comparison[j].price_numeric = 0
        /\ HasPositive(ret.price_comparison) =>
               LET pc == ret.price_comparison
                   lowest == LowestPositive(pc)
               IN  /\ ret.lowest_price = FormatRupees(lowest)
                   /\ ret.current_price = FormatRupees(lowest)
                   /\ \A i \in 1..Len(pc) :
                          /\ pc[i].price_numeric = lowest => pc[i].price_difference = BestPrice
                          /\ pc[i].price_numeric > lowest =>
                                 pc[i].price_difference
                                     = PercentHigher(PercentDiff(pc[i].price_numeric, lowest))

(***************************************************************************)
(* Unknown prices in the detail-page comparison                            *)
(***************************************************************************)
ScrapeSucceeded == ScrapeDone /\ ret.success

\* C25: in every successful comparison built from a detail page no entry
\* whose price is unknown (price_numeric 0 or absent) carries the label
\* "Best Price", also when no entry at all has a parsable price.
C25_NoBestPriceForUnknown ==
    ScrapeSucceeded =>
        \A i \in 1..Len(ret.price_comparison) :
            Get(ret.price_comparison[i], "price_numeric", 0) = 0
                => Get(ret.price_comparison[i], "price_difference", CheckPrice) # BestPrice

\* C26: in every successful comparison built from a detail page each entry
\* whose display price is a parsable positive amount, whatever source it came
\* from, has price_numeric equal to that amount, and so is never treated as
\* an unknown price.
C26_ParsablePriceIsNumeric ==
    ScrapeSucceeded =>
        \A i \in 1..Len(ret.price_comparison) :
            LET e == ret.price_comparison[i]
            IN  ParsePriceNumeric(e.price) > 0 =>
                    /\ Get(e, "price_numeric", 0) = ParsePriceNumeric(e.price)
                    /\ Get(e, "price_difference", CheckPrice) # CheckPrice

(***************************************************************************)
(* The quota and the relevance filter of the structured-data extractor     *)
(***************************************************************************)
\* every record of the page that the counter of this platform counts is a
\* record of this platform
AloneOnItsCounter(product_matches, label) ==
    \A i \in 1..Len(product_matches) :
        LET platform == ClassifyPlatform(product_matches[i].site_info)
        IN  QuotaCounter(platform) = QuotaCounter(label) => platform = label

\* C27: records that the relevance filter rejects do not consume a
\* platform's quota: a platform with k <= 25 complete records that pass the
\* filter has all k in the result while the cap of 60 is not reached,
\* however many irrelevant records of the same platform come before them.
C27_RejectedConsumeNoQuota ==
    (JsonDone /\ "product_matches" \in DOMAIN args /\ Len(ret.products) < MaxProducts) =>
        \A label \in PlatformLabels :
            (/\ AloneOnItsCounter(args.product_matches, label)
             /\ AdmissibleOf(args.product_matches, args.query, label) <= max_per_platform)
                => WithLabel(ret.products, label)
                       = AdmissibleOf(args.product_matches, args.query, label)

(***************************************************************************)
(* Favorites: concurrent add_favorite and remove_favorite requests         *)
(*                                                                         *)
(* The handlers are coroutines on one event loop: a request runs without   *)
(* interruption from one await of a database call to the next, and each    *)
(* database call is applied atomically.  args[r] is the request in slot r, *)
(* ret holds the favorites collection and the clock, invoked logs the      *)
(* answers in the order they are given.                                    *)
(***************************************************************************)
MaxRequests == 2

MaxAnswers == 3

FavoriteUsers == {"u1"}

FavoriteUrls == {"https://www.amazon.in/dp/B0C1", "https://www.flipkart.com/p/itm2"}

\* create_index([("user_id", 1), ("product_url", 1)]): no unique=True
FavoritesIndexUnique == FALSE

IdleRequest == [pc |-> "idle"]

\* find_one({"user_id": ..., "product_url": ...})
FindFavorite(favorites, user_id, product_url) ==
    {d \in favorites : d.user_id = user_id /\ d.product_url = product_url}

\* "_id": f"fav_{current_user.id}_{datetime.utcnow().timestamp()}"
FavoriteId(user_id, now) == <<"fav", user_id, now>>

\* insert_one: refused when the _id exists, or when a unique index forbids it
InsertRefused(favorites, doc) ==
    \/ \E d \in favorites : d.id = doc.id
    \/ FavoritesIndexUnique /\ FindFavorite(favorites, doc.user_id, doc.product_url) # {}

InitFavorites ==
    /\ groq_client = FALSE
    /\ op = "idle"
    /\ args = [r \in 1..MaxRequests |-> IdleRequest]
    /\ invoked = <<>>
    /\ ret = [favorites |-> {}, clock |-> 0]

FavoritesRunning == op \in {"idle", "favorites"} /\ "favorites" \in DOMAIN ret

Answer(r, handler, message) == [request |-> r, handler |-> handler, message |-> message]

\* add_favorite up to the answer of find_one: lines 103-112
AddFavoriteFind(r) ==
    /\ FavoritesRunning
    /\ args[r].pc = "idle"
    /\ Len(invoked) < MaxAnswers
    /\ \E user_id \in FavoriteUsers, product_url \in FavoriteUrls :
          IF FindFavorite(ret.favorites, user_id, product_url) # {}
          THEN /\ invoked' = Append(invoked, Answer(r, "add_favorite",
                                                    "Product already in favorites"))
               /\ args' = args
          ELSE /\ args' = [args EXCEPT ![r] = [pc |-> "insert", user_id |-> user_id,
                                                product_url |-> product_url]]
               /\ invoked' = invoked
    /\ op' = "favorites"
    /\ UNCHANGED <<groq_client, ret>>

\* add_favorite from the building of the document to the answer: lines 114-141
AddFavoriteInsert(r) ==
    /\ FavoritesRunning
    /\ args[r].pc = "insert"
    /\ \E now \in {ret.clock, ret.clock + 1} :
          LET doc == [id |-> FavoriteId(args[r].user_id, now),
                      user_id |-> args[r].user_id,
                      product_url |-> args[r].product_url]
          IN  /\ now <= MaxClock
              /\ IF InsertRefused(ret.favorites, doc)
                 THEN /\ ret' = [ret EXCEPT !.clock = now]
                      /\ invoked' = Append(invoked, Answer(r, "add_favorite", "error"))
                 ELSE /\ ret' = [favorites |-> ret.favorites \cup {doc}, clock |-> now]
                      /\ invoked' = Append(invoked, Answer(r, "add_favorite",
                                                           "Product added to favorites"))
    /\ args' = [args EXCEPT ![r] = IdleRequest]
    /\ op' = "favorites"
    /\ UNCHANGED groq_client

\* remove_favorite: delete_one by _id and user_id, and the answer
RemoveFavorite(r) ==
    /\ FavoritesRunning
    /\ args[r].pc = "idle"
    /\ Len(invoked) < MaxAnswers
    /\ \E user_id \in FavoriteUsers, now \in 0..MaxClock :
          LET found == {d \in ret.favorites :
                            d.id = FavoriteId(user_id, now) /\ d.user_id = user_id}
          IN  IF found = {}
              THEN /\ invoked' = Append(invoked, Answer(r, "remove_favorite",
                                                        "Favorite not found"))
                   /\ ret' = ret
              ELSE /\ invoked' = Append(invoked, Answer(r, "remove_favorite",
                                                        "Product removed from favorites"))
                   /\ ret' = [ret EXCEPT !.favorites = @ \ found]
    /\ op' = "favorites"
    /\ UNCHANGED <<groq_client, args>>

NextFavorites ==
    \E r \in 1..MaxRequests :
        \/ AddFavoriteFind(r)
        \/ AddFavoriteInsert(r)
        \/ RemoveFavorite(r)

SpecFavorites == InitFavorites /\ [][NextFavorites]_vars

\* C28: under any interleaving of concurrent add_favorite and
\* remove_favorite requests a user never holds two stored favorites with the
\* same product_url: of two adds by one user for one product_url at most one
\* inserts and the other is answered "Product already in favorites".
C28_NoDuplicateFavorite ==
    FavoritesRunning =>
        \A d1 \in ret.favorites, d2 \in ret.favorites :
            (d1.user_id = d2.user_id /\ d1.product_url = d2.product_url) => d1 = d2

(***************************************************************************)
(* The product store: create_product, update_product and scrape_url        *)
(*                                                                         *)
(* The handlers hold no await, so each runs to its end before the next     *)
(* starts.  A stored product is [url, current_price, price_history]; its   *)
(* id is its position in products, and price_history lists the prices of   *)
(* its PriceHistory rows in the order they were added.  Prices are whole   *)
(* numbers here.  ret is the store after the operation, invoked the store  *)
(* before it.                                                              *)
(***************************************************************************)
MaxStoreHistory == 3

StoreUrls == {"https://shop.example/a", "https://shop.example/b"}

StorePrices == {0, 10, 20}

\* db.query(models.Product).filter(models.Product.url == url).first()
ProductWithUrl(products, url) == {k \in 1..Len(products) : products[k].url = url}

\* create_product: 400 when the URL is stored, else the product and its
\* first history row
CreateProduct(products, url, current_price) ==
    IF ProductWithUrl(products, url) # {} THEN [status |-> 400, products |-> products]
    ELSE [status |-> 200,
          products |-> Append(products, [url |-> url, current_price |-> current_price,
                                         price_history |-> <<current_price>>])]

\* the history row added whatever the price
UpdateProductAlwaysLogs(products, product_id, url, current_price) ==
    IF product_id \notin 1..Len(products) THEN [status |-> 404, products |-> products]
    ELSE IF ProductWithUrl(products, url) \ {product_id} # {}
    THEN [status |-> 500, products |-> products]
    ELSE [status |-> 200,
          products |-> [products EXCEPT ![product_id] =
              [url |-> url, current_price |-> current_price,
               price_history |-> Append(@.price_history, current_price)]]]

\* update_product: 404 for an unknown id; the commit fails on the unique url
\* column when another product has the new URL, and nothing is stored
UpdateProduct(products, product_id, url, current_price) ==
    IF product_id \notin 1..Len(products) THEN [status |-> 404, products |-> products]
    ELSE IF ProductWithUrl(products, url) \ {product_id} # {}
    THEN [status |-> 500, products |-> products]
    ELSE [status |-> 200,
          products |-> [products EXCEPT ![product_id] =
              [url |-> url, current_price |-> current_price,
               price_history |->
                   IF current_price # @.current_price
                   THEN Append(@.price_history, current_price)
                   ELSE @.price_history]]]

\* scrape_url: scraped is what scrape_product did: raised, or the name and
\* price it found
ScrapeUrl(products, url, scraped) ==
    IF scraped.raised THEN [status |-> 400, products |-> products]
    ELSE IF ~scraped.has_name \/ scraped.current_price = 0
    THEN [status |-> 200, success |-> FALSE, products |-> products]
    ELSE LET existing == ProductWithUrl(products, url)
             k == CHOOSE x \in existing : TRUE
         IN  IF existing # {}
             THEN [status |-> 200, success |-> TRUE,
                   products |-> [products EXCEPT ![k] =
                       [url |-> @.url, current_price |-> scraped.current_price,
                        price_history |->
                            IF scraped.current_price # @.current_price
                            THEN Append(@.price_history, scraped.current_price)
                            ELSE @.price_history]]]
             ELSE [status |-> 200, success |-> TRUE,
                   products |-> Append(products,
                       [url |-> url, current_price |-> scraped.current_price,
                        price_history |-> <<scraped.current_price>>])]

InitStore ==
    /\ groq_client = FALSE
    /\ op = "idle"
    /\ args = <<>>
    /\ invoked = <<>>
    /\ ret = [products |-> <<>>]

StoreOps == {"create_product", "update_product", "scrape_url"}

StoreRunning ==
    /\ op \in StoreOps \cup {"idle"}
    /\ "products" \in DOMAIN ret
    /\ \A k \in 1..Len(ret.products) : Len(ret.products[k].price_history) < MaxStoreHistory

StoreReturns(name, a, r) ==
    /\ args' = a
    /\ invoked' = ret.products
    /\ ret' = r
    /\ op' = name
    /\ UNCHANGED groq_client

CreateProductCall ==
    /\ StoreRunning
    /\ \E url \in StoreUrls, current_price \in StorePrices :
          StoreReturns("create_product", [url |-> url, current_price |-> current_price],
                       CreateProduct(ret.products, url, current_price))

UpdateProductCall ==
    /\ StoreRunning
    /\ \E product_id \in 1..(Cardinality(StoreUrls) + 1), url \in StoreUrls,
          current_price \in StorePrices :
          StoreReturns("update_product",
                       [product_id |-> product_id, url |-> url,
                        current_price |-> current_price],
                       UpdateProduct(ret.products, product_id, url, current_price))

ScrapeUrlCall ==
    /\ StoreRunning
    /\ \E url \in StoreUrls, raised \in BOOLEAN, has_name \in BOOLEAN,
          current_price \in StorePrices :
          StoreReturns("scrape_url",
                       [url |-> url, raised |-> raised, has_name |-> has_name,
                        current_price |-> current_price],
                       ScrapeUrl(ret.products, url,
                                 [raised |-> raised, has_name |-> has_name,
                                  current_price |-> current_price]))

NextStore == CreateProductCall \/ UpdateProductCall \/ ScrapeUrlCall

SpecStore == InitStore /\ [][NextStore]_vars

StoreDone == op \in StoreOps

Last(s) == s[Len(s)]

\* the product that the last update_product or scrape_url found stored, 0
\* when it found none
ProductTouched ==
    IF op = "update_product"
    THEN (IF args.product_id \in 1..Len(invoked) THEN args.product_id ELSE 0)
    ELSE IF op = "scrape_url" /\ ProductWithUrl(invoked, args.url) # {}
    THEN CHOOSE k \in ProductWithUrl(invoked, args.url) : TRUE
    ELSE 0

\* C29: after any sequence of completed create_product, update_product and
\* scrape_url operations every stored product has at least one history
\* entry, the entry added last has the product's current_price, and
\* update_product and scrape_url add an entry only when the new price
\* differs from the stored current_price.
C29_HistoryTracksPrice ==
    StoreDone =>
        /\ \A k \in 1..Len(ret.products) :
              /\ Len(ret.products[k].price_history) >= 1
              /\ Last(ret.products[k].price_history) = ret.products[k].current_price
        /\ ProductTouched # 0 =>
              LET before == invoked[ProductTouched]
                  after == ret.products[ProductTouched]
              IN  IF after.current_price # before.current_price
                  THEN after.price_history
                           = Append(before.price_history, after.current_price)
                  ELSE after.price_history = before.price_history

\* a stored product whose price an update changed, then a scrape that found
\* the same price and added nothing
C29_Witness ==
    /\ op = "scrape_url"
    /\ ProductTouched # 0
    /\ ret.status = 200 /\ ret.success
    /\ Len(ret.products[ProductTouched].price_history) = 2
    /\ ret.products = invoked


(***************************************************************************)
(* The v2 search endpoint: main.search_products over                       *)
(* OllamaScraper.search_products                                           *)
(*                                                                         *)
(* A record of the original scraper is [name, price, url]; url is NoText   *)
(* when the record holds None there.  A Product keeps id, name, price,     *)
(* price_text, platform and url, each text a tuple of its parts; the       *)
(* timestamp in the id and extracted_at are left out.  The random draws of *)
(* the mock products are an input.                                         *)
(***************************************************************************)
MockCount == 10

MaxProductsData == 2

NoText == "None"

MockPlatforms == <<"Amazon", "Flipkart", "Snapdeal", "Tata CLiQ">>

\* _extract_price_numeric on the price texts of ApiProductsData
ExtractPriceNumericOfText(price_text) ==
    CASE price_text = "₹54,900" -> 54900
      [] price_text = "₹1,299" -> 1299
      [] OTHER -> 0

\* the body of the conversion loop: the Product of record prod at index i;
\* prod.get('url', '').startswith raises when url is None
ConvertRaises(prod) == prod.url = NoText

ConvertProduct(prod, i) ==
    [id |-> <<"prod", i>>, name |-> <<prod.name>>,
     price |-> ExtractPriceNumericOfText(prod.price), price_text |-> <<prod.price>>,
     platform |-> "BuyHatke", url |-> <<prod.url>>]

RECURSIVE ConvertProducts(_, _)
ConvertProducts(products_data, i) ==
    IF i > Len(products_data) THEN <<>>
    ELSE (IF ConvertRaises(products_data[i]) THEN <<>>
          ELSE <<ConvertProduct(products_data[i], i)>>)
         \o ConvertProducts(products_data, i + 1)

\* _generate_mock_products: draws[i] is the base_price and platform drawn
\* for product i
GenerateMockProducts(query, draws) ==
    [i \in 1..MockCount |->
        [id |-> <<"mock", i - 1>>, name |-> <<query, " - Model ", i>>,
         price |-> draws[i].base_price, price_text |-> <<"₹", draws[i].base_price>>,
         platform |-> draws[i].platform,
         url |-> <<"https://buyhatke.com/product/mock_", i - 1>>]]

\* OllamaScraper.search_products: available is whether original_scraper is
\* set, raised whether its search raised
ScraperSearchProducts(available, raised, products_data, query, draws) ==
    IF available /\ raised THEN GenerateMockProducts(query, draws)
    ELSE IF available /\ ConvertProducts(products_data, 1) # <<>>
    THEN ConvertProducts(products_data, 1)
    ELSE GenerateMockProducts(query, draws)

\* main.search_products, given the products the scraper object returned
ApiSearchProducts(logged, products, query, page, limit) ==
    IF ~logged THEN [status |-> 500]
    ELSE IF products = <<>>
    THEN [status |-> 200, success |-> FALSE, query |-> query, products |-> <<>>,
          total |-> 0, page |-> page, limit |-> limit, cached |-> FALSE]
    ELSE [status |-> 200, success |-> TRUE, query |-> query, products |-> products,
          total |-> Len(products), page |-> page, limit |-> limit, cached |-> FALSE]

ApiRecords ==
    [name : {"Dell Inspiron 15 Laptop", "Laptop Sleeve"},
     price : {"₹54,900", "₹1,299", "N/A"},
     url : {"https://www.amazon.in/dp/B0C1", NoText}]

ApiProductsData ==
    UNION {[1..n -> ApiRecords] : n \in 0..MaxProductsData}

MockDraws ==
    {[i \in 1..MockCount |-> [base_price |-> p, platform |-> MockPlatforms[k]]] :
        p \in {5000, 50000}, k \in {1, 4}}
    \cup {[i \in 1..MockCount |->
              [base_price |-> 5000 + 4500 * i, platform |-> MockPlatforms[(i % 4) + 1]]]}

InitApi ==
    /\ groq_client = FALSE
    /\ op = "idle"
    /\ args = <<>>
    /\ invoked = <<>>
    /\ ret = <<>>

ApiSearchProductsCall ==
    /\ op = "idle"
    /\ \E logged \in BOOLEAN, available \in BOOLEAN, raised \in BOOLEAN,
          products_data \in ApiProductsData, draws \in MockDraws :
          /\ args' = [query |-> "laptop", page |-> 1, limit |-> 100,
                      logged |-> logged, available |-> available, raised |-> raised,
                      products_data |-> products_data]
          /\ invoked' = IF logged THEN <<"scraper.search_products">> ELSE <<>>
          /\ ret' = ApiSearchProducts(logged,
                        ScraperSearchProducts(available, raised, products_data,
                                              "laptop", draws),
                        "laptop", 1, 100)
    /\ op' = "api_search_products"
    /\ UNCHANGED groq_client

NextApi == ApiSearchProductsCall

SpecApi == InitApi /\ [][NextApi]_vars

\* the endpoint answered a search it could log
ApiSearchDone == op = "api_search_products" /\ ret.status = 200

\* the original scraper is missing, raised, or returned no record
ScraperFoundNothing ==
    \/ ~args.available
    \/ args.raised
    \/ args.products_data = <<>>

ObtainedFromScraper(product) ==
    \E i \in 1..Len(args.products_data) :
        /\ ~ConvertRaises(args.products_data[i])
        /\ product = ConvertProduct(args.products_data[i], i)

\* C30: when the underlying scraper finds no product (it is unavailable,
\* raises, or returns nothing) the endpoint answers success=false,
\* products=[], total=0; every product returned with success=true was
\* obtained from the underlying scraper.
C30_NoProductMeansFailure ==
    ApiSearchDone =>
        /\ ScraperFoundNothing =>
              ~ret.success /\ ret.products = <<>> /\ ret.total = 0
        /\ ret.success =>
              /\ ~ScraperFoundNothing
              /\ \A k \in 1..Len(ret.products) : ObtainedFromScraper(ret.products[k])

\* the original scraper returned an empty list and the endpoint answered
\* with ten mock products
C30_FailingInput ==
    /\ ApiSearchDone
    /\ args.available /\ ~args.raised /\ args.products_data = <<>>
    /\ ret.success /\ ret.total = MockCount
    /\ ret.products[1].id = <<"mock", 0>>

====
